---- MODULE Spec2Model ----
(***************************************************************************)
(* Model of the insforge-mcp tool layer: backend-version comparison and    *)
(* gating (registerInsforgeTools), the response normalizer                 *)
(* (handleApiResponse), the usage-tracking wrapper (withUsageTracking),    *)
(* the caching resolver (getBackendVersion) and the tool handlers.         *)
(*                                                                         *)
(* A JavaScript string is modelled as a sequence of one-character strings  *)
(* wherever the code looks inside it (version strings, paths); texts that  *)
(* are only concatenated are TLA+ strings.                                 *)
(***************************************************************************)
EXTENDS Integers, Sequences, FiniteSets, TLC

VARIABLES
    cmpV1, cmpV2,     \* compareVersions: the two versions whose strings are the arguments
    cmpDone,          \* compareVersions has returned
    cmpResult,        \* the number it returned
    respIn,           \* handleApiResponse: the response it is given
    respDone,         \* handleApiResponse has settled
    respOut,          \* what it returned or threw
    clock,            \* Date.now(), in milliseconds
    ticks,            \* how often the clock has advanced
    healthVersion,    \* the version GET /api/health reports at present
    versionCache,     \* getBackendVersion: <<>> for null, or <<[version, timestamp]>>
    resolves,         \* getBackendVersion: the calls, each [pc, now, seen, requested, result]
    started,          \* number of getBackendVersion calls made
    lastFetched,      \* <<>>, or <<the call whose health response was stored last>>
    wrapKey,          \* withUsageTracking: GLOBAL_API_KEY of the closure
    wrapTool,         \* the tool name the wrapper was made for
    wrapInner,        \* how the wrapped handler settles
    wrapDone,         \* the wrapper has settled
    wrapPostOk,       \* whether the usage POST of this invocation succeeded
    wrapEvents,       \* the UsageEvents handed to the tracker, in order
    wrapOut,          \* what the wrapper returned or threw
    srv,              \* registerInsforgeTools: "starting", "serving" (returned) or "failed" (threw)
    GLOBAL_API_KEY,   \* the API key of the closure, "" if none is configured
    backendVersion,   \* the version fetched at registration, <<>> before
    registeredTools,  \* names registered on the McpServer
    toolCount,        \* the counter of registerTool
    healthRequests,   \* GET /api/health requests sent by this server
    call,             \* the tool call being served, or the last one served
    transports,       \* HTTP server: the session ids that are keys of the transports map
    servers,          \* HTTP server: the session ids that are keys of the servers map
    objs,             \* HTTP server: the transport / McpServer pairs created, by number
    reqs,             \* HTTP server: the requests in flight, by handler slot, and the one answered last
    deleted,          \* HTTP server: session ids whose DELETE handler ran to its end
    shutdown,         \* HTTP server: SIGINT was received
    httpBackendRequests  \* HTTP server: requests sent to a backend

cmpVars == <<cmpV1, cmpV2, cmpDone, cmpResult>>

respVars == <<respIn, respDone, respOut>>

cacheVars == <<clock, ticks, healthVersion, versionCache, resolves, started, lastFetched>>

wrapVars == <<wrapKey, wrapTool, wrapInner, wrapDone, wrapPostOk, wrapEvents, wrapOut>>

mainVars == <<srv, GLOBAL_API_KEY, backendVersion, registeredTools, toolCount, healthRequests, call>>

httpVars == <<transports, servers, objs, reqs, deleted, shutdown, httpBackendRequests>>

vars == <<cmpVars, respVars, cacheVars, wrapVars, mainVars, httpVars>>

(***************************************************************************)
(* Bounds of the model                                                     *)
(***************************************************************************)
MaxParts == 3        \* most dot-separated components of an enumerated version
MaxPart == 10        \* largest component value of an enumerated version
MaxTicks == 3        \* most advances of the clock
NumCallers == 2      \* getBackendVersion calls that may be in flight together
MaxSessions == 2     \* most transport / McpServer pairs the HTTP server creates
NumSlots == 2        \* HTTP requests that may be in flight together
MaxResolves == 3     \* most getBackendVersion calls in a run

(***************************************************************************)
(* JavaScript string helpers                                               *)
(***************************************************************************)
Digits == <<"0", "1", "2", "3", "4", "5", "6", "7", "8", "9">>

IsDigit(c) == \E i \in 1..10 : Digits[i] = c

DigitVal(c) == (CHOOSE i \in 1..10 : Digits[i] = c) - 1

\* what Number() yields for a string that is no decimal integer
NaN == 0 - 1

RECURSIVE DecVal(_)
DecVal(s) == IF s = <<>> THEN 0
             ELSE 10 * DecVal(SubSeq(s, 1, Len(s) - 1)) + DigitVal(s[Len(s)])

\* Number(s) for a string without whitespace: "" is 0, decimal digits are
\* their value, anything else over the model's alphabet is NaN
Number(s) == IF \A i \in 1..Len(s) : IsDigit(s[i]) THEN DecVal(s) ELSE NaN

\* s.replace(/^v/, '')
StripV(s) == IF Len(s) > 0 /\ s[1] = "v" THEN SubSeq(s, 2, Len(s)) ELSE s

\* index of the first occurrence of character c in s, or Len(s) + 1
FirstIndex(s, c) ==
    IF \E i \in 1..Len(s) : s[i] = c
    THEN CHOOSE i \in 1..Len(s) : s[i] = c /\ \A j \in 1..(i - 1) : s[j] # c
    ELSE Len(s) + 1

\* s.split(c)
RECURSIVE Split(_, _)
Split(s, c) ==
    LET k == FirstIndex(s, c)
    IN  IF k > Len(s) THEN <<s>>
        ELSE <<SubSeq(s, 1, k - 1)>> \o Split(SubSeq(s, k + 1, Len(s)), c)

\* v.replace(/^v/, '').split('-')[0].split('.').map(Number)
VersionParts(v) ==
    LET clean == Split(StripV(v), "-")[1]
        strs  == Split(clean, ".")
    IN  [i \in 1..Len(strs) |-> Number(strs[i])]

\* parts[i] || 0 : undefined (past the end), NaN and 0 all give 0
PartOrZero(parts, i) ==
    IF i > Len(parts) THEN 0 ELSE IF parts[i] = NaN THEN 0 ELSE parts[i]

Max(a, b) == IF a > b THEN a ELSE b

\* the for loop of compareVersions from index i on
RECURSIVE CompareFrom(_, _, _)
CompareFrom(parts1, parts2, i) ==
    IF i > Max(Len(parts1), Len(parts2)) THEN 0
    ELSE LET part1 == PartOrZero(parts1, i)
             part2 == PartOrZero(parts2, i)
         IN  IF part1 > part2 THEN 1
             ELSE IF part1 < part2 THEN 0 - 1
             ELSE CompareFrom(parts1, parts2, i + 1)

\* mutant: a version with fewer components is smaller outright (no zero padding)
RECURSIVE CompareFromNoPad(_, _, _)
CompareFromNoPad(parts1, parts2, i) ==
    IF i > Len(parts1) /\ i > Len(parts2) THEN 0
    ELSE IF i > Len(parts1) THEN 0 - 1
    ELSE IF i > Len(parts2) THEN 1
    ELSE IF parts1[i] > parts2[i] THEN 1
    ELSE IF parts1[i] < parts2[i] THEN 0 - 1
    ELSE CompareFromNoPad(parts1, parts2, i + 1)

compareVersionsNoPad(v1, v2) == CompareFromNoPad(VersionParts(v1), VersionParts(v2), 1)

compareVersions(v1, v2) == CompareFrom(VersionParts(v1), VersionParts(v2), 1)

(***************************************************************************)
(* Version strings the model enumerates: an optional "v", dot-separated    *)
(* non-negative integers, an optional "-dev.3" suffix                      *)
(***************************************************************************)
PartVals == {0, MaxPart - 1, MaxPart}

PartLists == UNION {[1..n -> PartVals] : n \in 1..MaxParts}

VersionRecs == [v : BOOLEAN, parts : PartLists, pre : BOOLEAN]

RECURSIVE ToDigits(_)
ToDigits(n) == IF n < 10 THEN <<Digits[n + 1]>>
               ELSE ToDigits(n \div 10) \o <<Digits[(n % 10) + 1]>>

RECURSIVE JoinDots(_)
JoinDots(parts) ==
    IF Len(parts) = 1 THEN ToDigits(parts[1])
    ELSE ToDigits(parts[1]) \o <<".">> \o JoinDots(Tail(parts))

PreSuffix == <<"-", "d", "e", "v", ".", "3">>

\* the string a version record stands for
VersionString(r) ==
    (IF r.v THEN <<"v">> ELSE <<>>) \o JoinDots(r.parts) \o (IF r.pre THEN PreSuffix ELSE <<>>)

\* numeric, component-wise, zero-padded comparison of two integer lists
RECURSIVE ListCompare(_, _)
ListCompare(p, q) ==
    IF p = <<>> /\ q = <<>> THEN 0
    ELSE LET a == IF p = <<>> THEN 0 ELSE Head(p)
             b == IF q = <<>> THEN 0 ELSE Head(q)
         IN  IF a # b THEN (IF a < b THEN 0 - 1 ELSE 1)
             ELSE ListCompare(IF p = <<>> THEN p ELSE Tail(p), IF q = <<>> THEN q ELSE Tail(q))

CmpIdle ==
    /\ cmpV1 = [v |-> FALSE, parts |-> <<0>>, pre |-> FALSE]
    /\ cmpV2 = [v |-> FALSE, parts |-> <<0>>, pre |-> FALSE]
    /\ cmpDone = FALSE
    /\ cmpResult = 0

(***************************************************************************)
(* Response normalizer (response-handler.ts)                               *)
(*                                                                         *)
(* A parsed JSON object is a function from the keys it has to their        *)
(* values, so that ('success' in responseData) is a test on its DOMAIN.    *)
(* A response is [kind |-> "object", body |-> b], [kind |-> "null"] (the   *)
(* body is the JSON value null) or [kind |-> "invalid"] (response.json()   *)
(* rejects).                                                               *)
(***************************************************************************)
\* the value of a missing property
Undefined == "undefined"

NoFields == [k \in {} |-> Undefined]

\* obj?.key for a string-valued property; an undefined obj is passed as NoFields
Get(obj, key) == IF key \in DOMAIN obj THEN obj[key] ELSE Undefined

\* obj.key for an object-valued property, NoFields standing for undefined
GetObject(obj, key) == IF key \in DOMAIN obj THEN obj[key] ELSE NoFields

\* the value undefined where a JSON document (a record) may stand
UndefinedValue == [undefined |-> TRUE]

\* responseData.data, a JSON document or undefined
GetData(obj) == IF "data" \in DOMAIN obj THEN obj.data ELSE UndefinedValue

\* the truth value JavaScript gives a string or undefined
Truthy(x) == x # Undefined /\ x # ""

\* a || b
Or(a, b) == IF Truthy(a) THEN a ELSE b

ErrInvalidJson == "Unexpected token < in JSON at position 0"

ErrInNull == "Cannot use 'in' operator to search for 'success' in null"

Returns(value) == [kind |-> "return", value |-> value]

Throws(text) == [kind |-> "throw", text |-> text]

\* mutant: error.message takes precedence over error.details
handleApiResponseMessageFirst(response) ==
    IF response.kind = "invalid" THEN Throws(ErrInvalidJson)
    ELSE IF response.kind = "null" THEN Throws(ErrInNull)
    ELSE LET responseData == response.body
         IN  IF "success" \in DOMAIN responseData
             THEN IF responseData.success = FALSE
                  THEN LET error        == GetObject(responseData, "error")
                           errorCode    == Or(Get(error, "code"), "UNKNOWN_ERROR")
                           errorMessage == Or(Get(error, "message"),
                                              Or(Get(error, "details"), "Unknown error"))
                           fullMessage  == "[" \o errorCode \o "] " \o errorMessage
                       IN  IF Truthy(Get(responseData, "nextAction"))
                           THEN Throws(fullMessage \o ". " \o responseData.nextAction)
                           ELSE Throws(fullMessage)
                  ELSE Returns(GetData(responseData))
             ELSE Returns(responseData)

\* mutant: a body without 'success' is unwrapped like an envelope
handleApiResponseNoLegacy(response) ==
    IF response.kind = "invalid" THEN Throws(ErrInvalidJson)
    ELSE IF response.kind = "null" THEN Throws(ErrInNull)
    ELSE LET responseData == response.body
         IN  IF "success" \in DOMAIN responseData /\ responseData.success = FALSE
             THEN handleApiResponseMessageFirst(response)
             ELSE IF "error" \in DOMAIN responseData
                  THEN Throws("[UNKNOWN_ERROR] Unknown error")
                  ELSE Returns(GetData(responseData))

handleApiResponse(response) ==
    IF response.kind = "invalid" THEN Throws(ErrInvalidJson)
    ELSE IF response.kind = "null" THEN Throws(ErrInNull)
    ELSE LET responseData == response.body
         IN  IF "success" \in DOMAIN responseData
             THEN IF responseData.success = FALSE
                  THEN LET error        == GetObject(responseData, "error")
                           errorCode    == Or(Get(error, "code"), "UNKNOWN_ERROR")
                           errorMessage == Or(Get(error, "details"),
                                              Or(Get(error, "message"), "Unknown error"))
                           fullMessage  == "[" \o errorCode \o "] " \o errorMessage
                       IN  IF Truthy(Get(responseData, "nextAction"))
                           THEN Throws(fullMessage \o ". " \o responseData.nextAction)
                           ELSE Throws(fullMessage)
                  ELSE Returns(GetData(responseData))
             ELSE Returns(responseData)

\* the response bodies the model enumerates: every key absent, empty or set
Opt(key, values) == {NoFields} \cup {key :> v : v \in values}

ErrorObjects ==
    {c @@ m @@ d : c \in Opt("code", {"", "E1"}),
                   m \in Opt("message", {"", "not allowed"}),
                   d \in Opt("details", {"", "bad input"})}

Bodies ==
    {s @@ d @@ e @@ n : s \in Opt("success", BOOLEAN),
                        d \in Opt("data", {[rows |-> "r1"]}),
                        e \in Opt("error", ErrorObjects),
                        n \in Opt("nextAction", {"", "retry with valid input"})}

Responses ==
    {[kind |-> "object", body |-> b] : b \in Bodies} \cup {[kind |-> "null"], [kind |-> "invalid"]}

RespIdle ==
    /\ respIn = [kind |-> "invalid"]
    /\ respDone = FALSE
    /\ respOut = Returns(UndefinedValue)

(***************************************************************************)
(* Usage tracking: trackToolUsage and withUsageTracking                    *)
(***************************************************************************)
\* mutant: the schedule tools are registered as well
ToolNamesWithSchedules ==
    <<"fetch-docs", "get-anon-key", "get-table-schema", "get-backend-metadata",
      "run-raw-sql", "download-template", "bulk-upsert", "create-bucket",
      "list-buckets", "delete-bucket", "create-function", "get-function",
      "update-function", "delete-function", "get-container-logs", "create-deployment",
      "upsert-schedule", "delete-schedule">>

\* the tools passed to registerTool, in source order
ToolNames ==
    <<"fetch-docs", "get-anon-key", "get-table-schema", "get-backend-metadata",
      "run-raw-sql", "download-template", "bulk-upsert", "create-bucket",
      "list-buckets", "delete-bucket", "create-function", "get-function",
      "update-function", "delete-function", "get-container-logs", "create-deployment">>

\* a tool result: its content blocks and whether isError is set
ToolResult(texts, isError) == [content |-> texts, isError |-> isError]

\* UsageTracker.trackUsage: one POST to the backend; a failed POST is caught
\* and logged inside the tracker, the promise never rejects
trackUsage(toolName, success, postOk) ==
    [threw |-> FALSE, text |-> "", events |-> <<[toolName |-> toolName, success |-> success]>>]

\* mutant: usage is tracked whether or not an API key is configured
trackToolUsageKeyless(key, toolName, success, postOk) ==
    trackUsage(toolName, success, postOk)

\* trackToolUsage: nothing is sent without a configured API key
trackToolUsage(key, toolName, success, postOk) ==
    IF key # ""
    THEN trackUsage(toolName, success, postOk)
    ELSE [threw |-> FALSE, text |-> "", events |-> <<>>]

\* the catch block of withUsageTracking: track a failure, re-throw the error
TrackAndRethrow(key, toolName, errorText, postOk, eventsSoFar) ==
    LET t == trackToolUsage(key, toolName, FALSE, postOk)
    IN  [outcome |-> Throws(IF t.threw THEN t.text ELSE errorText),
         events  |-> eventsSoFar \o t.events]

\* mutant: a failed usage POST is surfaced as the failure of the tool call
withUsageTrackingSurfacing(key, toolName, inner, postOk) ==
    LET t == trackToolUsage(key, toolName, inner.kind = "return", postOk)
    IN  [outcome |-> IF key # "" /\ ~postOk THEN Throws("Failed to track usage")
                     ELSE inner,
         events  |-> t.events]

\* mutant: every invocation is tracked as a success and an error is swallowed
withUsageTrackingAlwaysSuccess(key, toolName, inner, postOk) ==
    LET t == trackToolUsage(key, toolName, TRUE, postOk)
    IN  [outcome |-> IF inner.kind = "return" THEN inner
                     ELSE Returns(ToolResult(<<inner.text>>, TRUE)),
         events  |-> t.events]

\* the function withUsageTracking returns, applied to a handler that settles
\* as inner
withUsageTracking(key, toolName, inner, postOk) ==
    IF inner.kind = "return"
    THEN LET t == trackToolUsage(key, toolName, TRUE, postOk)
         IN  IF t.threw
             THEN TrackAndRethrow(key, toolName, t.text, postOk, t.events)
             ELSE [outcome |-> inner, events |-> t.events]
    ELSE TrackAndRethrow(key, toolName, inner.text, postOk, <<>>)

\* the ways a wrapped handler settles in the wrapper model
InnerOutcomes ==
    {Returns(ToolResult(<<"Anonymous token generated completed successfully">>, FALSE)),
     Returns(ToolResult(<<"Schema retrieved completed successfully", "INSFORGE DEVELOPMENT RULES">>, FALSE)),
     Returns(ToolResult(<<"Error generating anonymous token: [E1] bad input">>, TRUE)),
     Throws("Invalid arguments"),
     Throws("Cannot read properties of undefined")}

ApiKeys == {"", "ik_key"}

WrapIdle ==
    /\ wrapKey = ""
    /\ wrapTool = ToolNames[1]
    /\ wrapInner = Throws("")
    /\ wrapDone = FALSE
    /\ wrapPostOk = TRUE
    /\ wrapEvents = <<>>
    /\ wrapOut = Throws("")

(***************************************************************************)
(* Caching resolver: getBackendVersion (shared/tools.ts)                   *)
(***************************************************************************)
VERSION_CACHE_TTL == 5 * 60 * 1000

\* the version string "a.b.c" of a list of components
V(parts) == VersionString([v |-> FALSE, parts |-> parts, pre |-> FALSE])

\* versions the backend of the resolver model reports
CacheVersions == {V(<<1, 1, 0>>), V(<<1, 2, 0>>)}

\* steps by which the clock advances: one millisecond, one short of the TTL
ClockSteps == {1, VERSION_CACHE_TTL - 1}

Callers == 1..NumCallers

IdleResolve == [pc |-> "idle", now |-> 0, seen |-> <<>>, requested |-> FALSE,
                result |-> Returns(<<>>), tool |-> "", outcome |-> Returns(<<>>)]

\* mutant: the entry is still served when its age equals the TTL
CacheValidInclusive(cache, now) ==
    Len(cache) > 0 /\ (now - cache[1].timestamp) <= VERSION_CACHE_TTL

\* versionCache && (now - versionCache.timestamp) < VERSION_CACHE_TTL
CacheValid(cache, now) == Len(cache) > 0 /\ (now - cache[1].timestamp) < VERSION_CACHE_TTL

\* mutant: the entry is stamped with the time the health response arrived
CacheEntryStampedOnArrival(version, now, completedAt) ==
    [version |-> version, timestamp |-> completedAt]

\* the entry written when the health response of a call arrives
CacheEntry(version, now, completedAt) == [version |-> version, timestamp |-> now]

CacheIdle ==
    /\ clock = 0
    /\ ticks = 0
    /\ healthVersion = V(<<1, 1, 0>>)
    /\ versionCache = <<>>
    /\ resolves = [c \in Callers |-> IdleResolve]
    /\ started = 0
    /\ lastFetched = <<>>

\* getBackendVersion up to its first await: read the clock, serve the cache
\* or send GET /api/health
getBackendVersionStart(c, toolName) ==
    /\ resolves[c].pc = "idle"
    /\ started < MaxResolves
    /\ started' = started + 1
    /\ resolves' = [resolves EXCEPT ![c] =
            IF CacheValid(versionCache, clock)
            THEN [IdleResolve EXCEPT !.pc = "done", !.now = clock, !.seen = versionCache,
                                     !.result = Returns(versionCache[1].version),
                                     !.tool = toolName]
            ELSE [IdleResolve EXCEPT !.pc = "fetching", !.now = clock, !.seen = versionCache,
                                     !.requested = TRUE, !.tool = toolName]]
    /\ UNCHANGED <<clock, ticks, healthVersion, versionCache, lastFetched>>

\* a call of getBackendVersion that is not made by checkToolVersion
ResolveStart(c) == getBackendVersionStart(c, "")

\* the health response is OK and parses: cache the version, return it
ResolveOk(c) ==
    /\ resolves[c].pc = "fetching"
    /\ versionCache' = <<CacheEntry(healthVersion, resolves[c].now, clock)>>
    /\ resolves' = [resolves EXCEPT ![c].pc = "done", ![c].result = Returns(healthVersion)]
    /\ lastFetched' = <<resolves'[c]>>
    /\ UNCHANGED <<clock, ticks, healthVersion, started>>

\* mutant: a failed health request drops the cached entry
ResolveFailClearingCache(c) ==
    /\ resolves[c].pc = "fetching"
    /\ resolves' = [resolves EXCEPT ![c].pc = "done",
                        ![c].result = Throws("Failed to fetch backend version: Health check failed with status 503")]
    /\ versionCache' = <<>>
    /\ UNCHANGED <<clock, ticks, healthVersion, started, lastFetched>>

\* fetch rejects, the status is not OK or the body does not parse: throw
ResolveFail(c) ==
    /\ resolves[c].pc = "fetching"
    /\ resolves' = [resolves EXCEPT ![c].pc = "done",
                        ![c].result = Throws("Failed to fetch backend version: Health check failed with status 503")]
    /\ UNCHANGED <<clock, ticks, healthVersion, versionCache, started, lastFetched>>

\* the caller is free to call again
ResolveReturn(c) ==
    /\ resolves[c].pc = "done"
    /\ resolves[c].tool = ""
    /\ resolves' = [resolves EXCEPT ![c] = IdleResolve]
    /\ UNCHANGED <<clock, ticks, healthVersion, versionCache, started, lastFetched>>

Tick ==
    /\ ticks < MaxTicks
    /\ ticks' = ticks + 1
    /\ \E d \in ClockSteps : clock' = clock + d
    /\ UNCHANGED <<healthVersion, versionCache, resolves, started, lastFetched>>

\* the backend is upgraded or downgraded
BackendChange ==
    /\ \E v \in CacheVersions \ {healthVersion} : healthVersion' = v
    /\ UNCHANGED <<clock, ticks, versionCache, resolves, started, lastFetched>>

\* TOOL_VERSION_REQUIREMENTS of the generation with the version cache: the
\* minimum version by tool name
RequiredVersions ==
    ("upsert-schedule" :> V(<<1, 1, 1>>)) @@ ("delete-schedule" :> V(<<1, 1, 1>>))

ErrRequiresVersion(toolName, requiredVersion, currentVersion) ==
    <<"Tool '", toolName, "' requires backend version ", requiredVersion,
      " or higher, but current version is ", currentVersion,
      ". Please upgrade your Insforge backend server.">>

\* mutant: a failed version resolution is re-thrown
checkToolVersionFailClosed(toolName, resolved) ==
    IF resolved.kind = "throw" THEN resolved
    ELSE IF compareVersions(resolved.value, RequiredVersions[toolName]) < 0
         THEN Throws(ErrRequiresVersion(toolName, RequiredVersions[toolName], resolved.value))
         ELSE Returns(<<>>)

\* checkToolVersion for a tool that has a requirement, from the settlement of
\* its getBackendVersion call on: a version below the requirement throws,
\* the catch re-throws that error only, and a failed resolution is logged as
\* a warning and the check returns
checkToolVersion(toolName, resolved) ==
    IF resolved.kind = "throw" THEN Returns(<<>>)
    ELSE IF compareVersions(resolved.value, RequiredVersions[toolName]) < 0
         THEN Throws(ErrRequiresVersion(toolName, RequiredVersions[toolName], resolved.value))
         ELSE Returns(<<>>)

\* tools checkToolVersion is called for: one without a requirement, one with
CheckedTools == {"create-bucket", "upsert-schedule"}

\* checkToolVersion up to its first await: return at once if the tool has
\* no requirement, else call getBackendVersion
CheckToolVersionStart(c) ==
    \E toolName \in CheckedTools :
        IF toolName \notin DOMAIN RequiredVersions
        THEN /\ resolves[c].pc = "idle"
             /\ started < MaxResolves
             /\ resolves' = [resolves EXCEPT ![c] =
                     [IdleResolve EXCEPT !.pc = "checked", !.now = clock,
                                         !.seen = versionCache, !.tool = toolName]]
             /\ UNCHANGED <<clock, ticks, healthVersion, versionCache, started, lastFetched>>
        ELSE getBackendVersionStart(c, toolName)

\* getBackendVersion has settled: checkToolVersion settles
CheckToolVersionSettled(c) ==
    /\ resolves[c].pc = "done"
    /\ resolves[c].tool # ""
    /\ resolves' = [resolves EXCEPT ![c].pc = "checked",
                        ![c].outcome = checkToolVersion(resolves[c].tool, resolves[c].result)]
    /\ UNCHANGED <<clock, ticks, healthVersion, versionCache, started, lastFetched>>

\* the tool has proceeded or failed; the caller is free to call again
CheckToolVersionReturn(c) ==
    /\ resolves[c].pc = "checked"
    /\ resolves' = [resolves EXCEPT ![c] = IdleResolve]
    /\ UNCHANGED <<clock, ticks, healthVersion, versionCache, started, lastFetched>>

(***************************************************************************)
(* Tool registration: TOOL_VERSION_REQUIREMENTS, shouldRegisterTool,      *)
(* registerTool and registerInsforgeTools (the generation with dynamic     *)
(* registration)                                                           *)
(***************************************************************************)
TOOL_VERSION_REQUIREMENTS ==
    ("upsert-schedule" :> [minVersion |-> V(<<1, 1, 1>>)]) @@
    ("delete-schedule" :> [minVersion |-> V(<<1, 1, 1>>)]) @@
    ("create-deployment" :> [minVersion |-> V(<<1, 4, 7>>)])

\* mutant: the minimum version itself is rejected
meetsRequirementStrictMin(requirement, version) ==
    /\ ~("minVersion" \in DOMAIN requirement /\ requirement.minVersion # <<>>
           /\ compareVersions(version, requirement.minVersion) <= 0)
    /\ ~("maxVersion" \in DOMAIN requirement /\ requirement.maxVersion # <<>>
           /\ compareVersions(version, requirement.maxVersion) > 0)

\* the two bound checks of shouldRegisterTool on a requirement that exists
meetsRequirement(requirement, version) ==
    /\ ~("minVersion" \in DOMAIN requirement /\ requirement.minVersion # <<>>
           /\ compareVersions(version, requirement.minVersion) < 0)
    /\ ~("maxVersion" \in DOMAIN requirement /\ requirement.maxVersion # <<>>
           /\ compareVersions(version, requirement.maxVersion) > 0)

shouldRegisterTool(toolName, version) ==
    IF toolName \notin DOMAIN TOOL_VERSION_REQUIREMENTS THEN TRUE
    ELSE meetsRequirement(TOOL_VERSION_REQUIREMENTS[toolName], version)

\* mutant: the counter advances for a skipped tool as well
registerToolCountingSkipped(toolName, reg, version) ==
    IF shouldRegisterTool(toolName, version)
    THEN [tools |-> reg.tools \cup {toolName}, toolCount |-> reg.toolCount + 1]
    ELSE [reg EXCEPT !.toolCount = @ + 1]

\* registerTool on a server whose tools and counter are reg
registerTool(toolName, reg, version) ==
    IF shouldRegisterTool(toolName, version)
    THEN [tools |-> reg.tools \cup {toolName}, toolCount |-> reg.toolCount + 1]
    ELSE reg

\* the registerTool calls of registerInsforgeTools, in source order, from the i-th on
RECURSIVE RegisterFrom(_, _, _)
RegisterFrom(i, reg, version) ==
    IF i > Len(ToolNames) THEN reg
    ELSE RegisterFrom(i + 1, registerTool(ToolNames[i], reg, version), version)

(***************************************************************************)
(* Backend responses seen by the handlers                                  *)
(***************************************************************************)
DataRows == [rows |-> "r1"]

DataMessage == [message |-> "Bucket created"]

DataDoc == [content |-> "# InsForge instructions"]

DataEmptyDoc == [content |-> ""]

DataDeployment == [id |-> "dep1", uploadUrl |-> "https://storage/upload", uploadFields |-> "key,policy"]

DataToken == [accessToken |-> "anon.jwt"]

EnvelopeOk(data) == [kind |-> "object", body |-> [success |-> TRUE, data |-> data]]

EnvelopeNoData == [kind |-> "object", body |-> [success |-> TRUE]]

EnvelopeFail ==
    [kind |-> "object",
     body |-> [success |-> FALSE, error |-> [code |-> "E1", details |-> "bad input"],
               nextAction |-> "retry with valid input"]]

EnvelopeNotFound ==
    [kind |-> "object",
     body |-> [success |-> FALSE, error |-> [code |-> "NOT_FOUND", message |-> "Resource not found"]]]

\* what awaiting fetch(...) gives: a rejection, or a response with a status
Rejected == [net |-> "rejects", status |-> 0, response |-> [kind |-> "invalid"]]

Got(status, response) == [net |-> "ok", status |-> status, response |-> response]

FetchOutcomes ==
    {Rejected,
     Got(200, EnvelopeOk(DataRows)), Got(200, EnvelopeOk(DataMessage)),
     Got(200, EnvelopeOk(DataDoc)), Got(200, EnvelopeOk(DataEmptyDoc)),
     Got(200, EnvelopeOk(DataDeployment)), Got(200, EnvelopeOk(DataToken)),
     Got(200, EnvelopeNoData),
     Got(400, EnvelopeFail), Got(404, EnvelopeNotFound), Got(500, [kind |-> "invalid"])}

\* response.ok
IsOk(outcome) == outcome.status >= 200 /\ outcome.status <= 299

ErrNetwork == "request to http://localhost:7130 failed, reason: connect ECONNREFUSED"

ErrNoApiKey == "API key is required. Pass --api_key when starting the MCP server."

ErrDocNotFound == "Documentation not found. This feature may not be supported in your project version. Please contact the Insforge team for assistance."

ErrDocFormat == "Invalid response format from documentation endpoint"

\* errMsg.includes('404') || errMsg.toLowerCase().includes('not found'), on
\* the messages of this model
MentionsNotFound(core) == core \in {ErrDocNotFound, "[NOT_FOUND] Resource not found"}

\* JSON.stringify(data, null, 2), up to the layout of the document
Stringify(data) ==
    IF data = UndefinedValue THEN "undefined"
    ELSE IF "rows" \in DOMAIN data THEN "{rows: r1}"
    ELSE IF "message" \in DOMAIN data THEN "{message: Bucket created}"
    ELSE IF "content" \in DOMAIN data THEN "{content}"
    ELSE IF "id" \in DOMAIN data THEN "{id: dep1}"
    ELSE IF "accessToken" \in DOMAIN data THEN "{accessToken}"
    ELSE "{}"

formatSuccessMessage(operation, data) ==
    IF data # UndefinedValue /\ "message" \in DOMAIN data
    THEN data.message \o "\n" \o Stringify(data)
    ELSE operation \o " completed successfully:\n" \o Stringify(data)

\* mutant: without a configured key the request goes out with an empty key
getApiKeyLenient(toolApiKey, key) == Returns(key)

\* getApiKey: the key of the closure, or an error when none is configured;
\* the key passed by the tool call is not looked at
getApiKey(toolApiKey, key) == IF key = "" THEN Throws(ErrNoApiKey) ELSE Returns(key)

\* the tools whose handler passes its apiKey argument to getApiKey; the
\* others call getApiKey()
ToolsPassingApiKey ==
    {"get-anon-key", "get-table-schema", "get-backend-metadata", "run-raw-sql",
     "bulk-upsert", "create-bucket", "delete-bucket", "get-container-logs"}

\* fetchDocumentation on the outcome of its request: the content, or an
\* error whose text wraps the message core
fetchDocumentation(docType, outcome) ==
    LET wrap(core) == [kind |-> "throw", core |-> core,
                       text |-> "Unable to retrieve " \o docType \o " documentation: " \o core]
    IN  IF outcome.net = "rejects" THEN wrap(ErrNetwork)
        ELSE IF outcome.status = 404 THEN wrap(ErrDocNotFound)
        ELSE LET r == handleApiResponse(outcome.response)
             IN  IF r.kind = "throw" THEN wrap(r.text)
                 ELSE IF r.value # UndefinedValue /\ "content" \in DOMAIN r.value
                      THEN Returns(r.value.content)
                      ELSE wrap(ErrDocFormat)

(***************************************************************************)
(* A tool call: the handler runs from one await to the next                *)
(***************************************************************************)
Request(method, path, key) == [method |-> method, path |-> path, key |-> key]

NoCall ==
    [tool |-> "", arg |-> <<>>, pc |-> "none", step |-> "", requests |-> <<>>,
     pending |-> ToolResult(<<>>, FALSE), failure |-> "", dep |-> UndefinedValue,
     inner |-> Throws(""), events |-> <<>>, postOk |-> TRUE, outcome |-> Throws(""),
     apiKey |-> "", context |-> <<>>, received |-> <<>>]

NewCall(tool, arg) == [NoCall EXCEPT !.tool = tool, !.arg = arg, !.pc = "running"]

\* what the handler of call c passes to getApiKey
KeyArgument(c) == IF c.tool \in ToolsPassingApiKey THEN c.apiKey ELSE ""

Send(c, step, request) ==
    [c EXCEPT !.pc = "awaitFetch", !.step = step, !.requests = Append(@, request)]

\* the handler returns toolResult
Settle(c, toolResult) == [c EXCEPT !.pc = "settled", !.inner = Returns(toolResult)]

\* the catch block of a handler: an error result carrying the message
Caught(c, label, errMsg) == Settle(c, ToolResult(<<label \o ": " \o errMsg>>, TRUE))

\* a backend call or file read of the tool failed with errMsg
Failed(c, label, errMsg) == Caught([c EXCEPT !.failure = errMsg], label, errMsg)

ContextBanner == "\n\n---\nINSFORGE DEVELOPMENT RULES (Auto-loaded):\n"

\* mutant: the decorator resolves the backend version anew on every call
addBackgroundContextResolving(c, response, version) ==
    LET c1 == [c EXCEPT !.requests = Append(@, Request("GET", "/api/health", ""))]
    IN  IF compareVersions(version, V(<<1, 1, 7>>)) < 0
        THEN [Send(c1, "context", Request("GET", "/api/docs/instructions", ""))
                 EXCEPT !.pending = response]
        ELSE Settle(c1, response)

\* mutant: the decorator is active at the threshold version as well
addBackgroundContextInclusive(c, response, version) ==
    IF compareVersions(version, V(<<1, 1, 7>>)) <= 0
    THEN [Send(c, "context", Request("GET", "/api/docs/instructions", ""))
             EXCEPT !.pending = response]
    ELSE Settle(c, response)

\* addBackgroundContext up to its await: for a legacy backend the
\* instructions are requested, otherwise the response is returned as it is
addBackgroundContext(c, response, version) ==
    IF compareVersions(version, V(<<1, 1, 7>>)) < 0
    THEN [Send(c, "context", Request("GET", "/api/docs/instructions", ""))
             EXCEPT !.pending = response]
    ELSE Settle(c, response)

\* mutant: a failure to fetch the instructions replaces the response
ContextFetchedSurfacing(c, outcome) ==
    LET doc == fetchDocumentation("instructions", outcome)
        c1  == [c EXCEPT !.context = <<doc>>]
    IN  IF doc.kind = "throw"
        THEN Settle(c1, ToolResult(<<doc.text>>, TRUE))
        ELSE IF doc.value # ""
        THEN Settle(c1, [c.pending EXCEPT !.content = Append(@, ContextBanner \o doc.value)])
        ELSE Settle(c1, c.pending)

\* addBackgroundContext of the generation that resolves the version through
\* the cache: resolved is what getBackendVersion gave, doc what
\* fetchDocumentation('instructions') gave
addBackgroundContextCached(response, resolved, doc) ==
    IF resolved.kind = "throw" THEN response
    ELSE IF compareVersions(resolved.value, V(<<1, 1, 7>>)) < 0
              /\ doc.kind = "return" /\ doc.value # ""
         THEN [response EXCEPT !.content = Append(@, ContextBanner \o doc.value)]
         ELSE response

\* the rest of addBackgroundContext: fetchInsforgeInstructionsContext gives the
\* content or null, a non-empty content is pushed as one more block
ContextFetched(c, outcome) ==
    LET doc     == fetchDocumentation("instructions", outcome)
        context == IF doc.kind = "return" THEN doc.value ELSE ""
        c1      == [c EXCEPT !.context = <<doc>>]
    IN  IF context # ""
        THEN Settle(c1, [c.pending EXCEPT !.content = Append(@, ContextBanner \o context)])
        ELSE Settle(c1, c.pending)

\* the tools whose handler is: getApiKey, one request, handleApiResponse,
\* formatSuccessMessage, addBackgroundContext
SimpleTools ==
    ("get-anon-key" :> [method |-> "POST", path |-> "/api/auth/tokens/anon",
                        done |-> "Anonymous token generated",
                        error |-> "Error generating anonymous token"]) @@
    ("get-table-schema" :> [method |-> "GET", path |-> "/api/metadata/users",
                            done |-> "Schema retrieved",
                            error |-> "Error getting table schema"]) @@
    ("get-backend-metadata" :> [method |-> "GET", path |-> "/api/metadata?mcp=true",
                                done |-> "Backend metadata",
                                error |-> "Error retrieving backend metadata"]) @@
    ("run-raw-sql" :> [method |-> "POST", path |-> "/api/database/advance/rawsql",
                       done |-> "SQL query executed",
                       error |-> "Error executing SQL query"]) @@
    ("create-bucket" :> [method |-> "POST", path |-> "/api/storage/buckets",
                         done |-> "Bucket created",
                         error |-> "Error creating bucket"]) @@
    ("list-buckets" :> [method |-> "GET", path |-> "/api/storage/buckets",
                        done |-> "Buckets retrieved",
                        error |-> "Error listing buckets"]) @@
    ("delete-bucket" :> [method |-> "DELETE", path |-> "/api/storage/buckets/avatars",
                         done |-> "Bucket deleted",
                         error |-> "Error deleting bucket"]) @@
    ("get-function" :> [method |-> "GET", path |-> "/api/functions/hello",
                        done |-> "Edge function 'hello' details",
                        error |-> "Error getting function"]) @@
    ("delete-function" :> [method |-> "DELETE", path |-> "/api/functions/hello",
                           done |-> "Edge function 'hello' deleted successfully",
                           error |-> "Error deleting function"])

\* a simple handler up to its await
SimpleStart(c, key) ==
    LET t == SimpleTools[c.tool]
        k == getApiKey(KeyArgument(c), key)
    IN  IF k.kind = "throw" THEN Caught(c, t.error, k.text)
        ELSE Send(c, "main", Request(t.method, t.path, k.value))

\* a simple handler from the outcome of its request on
SimpleFetched(c, outcome, version) ==
    LET t == SimpleTools[c.tool]
    IN  IF outcome.net = "rejects" THEN Failed(c, t.error, ErrNetwork)
        ELSE LET r == handleApiResponse(outcome.response)
             IN  IF r.kind = "throw" THEN Failed(c, t.error, r.text)
                 ELSE addBackgroundContext(c,
                          ToolResult(<<IF c.tool = "get-backend-metadata"
                                       THEN "Backend metadata:\n\n" \o Stringify(r.value)
                                       ELSE formatSuccessMessage(t.done, r.value)>>, FALSE),
                          version)

DocTypes == {"instructions", "db-sdk"}

DocNotAvailable(docType) ==
    "Documentation for \"" \o docType \o "\" is not available. This is likely because your backend version is too old and doesn't support this documentation endpoint yet. This won't affect the functionality of the tools - they will still work correctly."

\* the fetch-docs handler up to its await
FetchDocsStart(c) == Send(c, "main", Request("GET", "/api/docs/" \o c.arg, ""))

\* the fetch-docs handler from the outcome of its request on
FetchDocsFetched(c, outcome, version) ==
    LET doc == fetchDocumentation(c.arg, outcome)
    IN  IF doc.kind = "return"
        THEN addBackgroundContext(c, ToolResult(<<doc.value>>, FALSE), version)
        ELSE LET c1 == [c EXCEPT !.failure = doc.core]
             IN  IF MentionsNotFound(doc.core)
                 THEN Settle(c1, ToolResult(<<DocNotAvailable(c.arg)>>, FALSE))
                 ELSE Settle(c1, ToolResult(<<"Error fetching " \o c.arg \o " documentation: " \o doc.text>>, FALSE))

\* get-container-logs up to its first await
ContainerLogsStart(c, key) ==
    LET k == getApiKey(KeyArgument(c), key)
    IN  IF k.kind = "throw" THEN Caught(c, "Error retrieving container logs", k.text)
        ELSE Send(c, "logs", Request("GET", "/api/logs/" \o c.arg \o "?limit=20", k.value))

\* mutant: every 404 is followed by a request to the legacy endpoint
ContainerLogsFetchedRetrying(c, outcome, version) ==
    IF outcome.net = "rejects" THEN Failed(c, "Error retrieving container logs", ErrNetwork)
    ELSE IF outcome.status = 404
    THEN Send(c, "legacy", Request("GET", "/api/logs/analytics/" \o c.arg \o "?limit=20",
                                   c.requests[1].key))
    ELSE LET r == handleApiResponse(outcome.response)
         IN  IF r.kind = "throw" THEN Failed(c, "Error retrieving container logs", r.text)
             ELSE addBackgroundContext(c,
                      ToolResult(<<formatSuccessMessage("Latest logs from " \o c.arg, r.value)>>, FALSE),
                      version)

\* get-container-logs from the outcome of a request on: a 404 from the first
\* endpoint is followed by the legacy endpoint
ContainerLogsFetched(c, outcome, version) ==
    IF outcome.net = "rejects" THEN Failed(c, "Error retrieving container logs", ErrNetwork)
    ELSE IF c.step = "logs" /\ outcome.status = 404
    THEN Send(c, "legacy", Request("GET", "/api/logs/analytics/" \o c.arg \o "?limit=20",
                                   c.requests[1].key))
    ELSE LET r == handleApiResponse(outcome.response)
         IN  IF r.kind = "throw" THEN Failed(c, "Error retrieving container logs", r.text)
             ELSE addBackgroundContext(c,
                      ToolResult(<<formatSuccessMessage("Latest logs from " \o c.arg, r.value)>>, FALSE),
                      version)

LogSources == {"insforge.logs", "postgres.logs"}

\* a local step (file read, archive, subprocess) the handler awaits
AwaitLocal(c, step) == [c EXCEPT !.pc = "awaitLocal", !.step = step]

ErrNoEnt == "ENOENT: no such file or directory"

ErrUndefinedResult == "Cannot read properties of undefined"

\* the tools that read a local file: its path is the argument, <<>> when
\* update-function is called without codeFile
FileTools ==
    ("bulk-upsert" :> [method |-> "POST", path |-> "/api/database/advance/bulk-upsert",
                       error |-> "Error performing bulk upsert"]) @@
    ("create-function" :> [method |-> "POST", path |-> "/api/functions",
                           error |-> "Error creating function"]) @@
    ("update-function" :> [method |-> "PUT", path |-> "/api/functions/hello",
                           error |-> "Error updating function"])

\* the request of a file tool, its headers needing the API key
FileToolSend(c, key) ==
    LET t == FileTools[c.tool]
        k == getApiKey(KeyArgument(c), key)
    IN  IF k.kind = "throw" THEN Caught(c, t.error, k.text)
        ELSE Send(c, "main", Request(t.method, t.path, k.value))

\* a file tool up to its first await: bulk-upsert asks for the key before it
\* reads the file, update-function reads a file only if codeFile is given
FileToolStart(c, key) ==
    IF c.tool = "bulk-upsert" /\ getApiKey(KeyArgument(c), key).kind = "throw"
    THEN Caught(c, FileTools[c.tool].error, getApiKey(KeyArgument(c), key).text)
    ELSE IF c.tool = "update-function" /\ c.arg = ""
    THEN FileToolSend(c, key)
    ELSE AwaitLocal(c, "readFile")

\* a file tool after fs.readFile has settled
FileToolRead(c, ok, key) ==
    IF ok THEN FileToolSend(c, key)
    ELSE Failed(c, FileTools[c.tool].error,
                IF c.tool = "bulk-upsert" THEN ErrNoEnt
                ELSE "Failed to read code file '" \o c.arg \o "': " \o ErrNoEnt)

\* a file tool from the outcome of its request on
FileToolFetched(c, outcome, version) ==
    LET t == FileTools[c.tool]
    IN  IF outcome.net = "rejects" THEN Failed(c, t.error, ErrNetwork)
        ELSE LET r == handleApiResponse(outcome.response)
             IN  IF r.kind = "throw" THEN Failed(c, t.error, r.text)
                 ELSE IF c.tool = "bulk-upsert"
                 THEN IF r.value = UndefinedValue THEN Failed(c, t.error, ErrUndefinedResult)
                      ELSE addBackgroundContext(c,
                               ToolResult(<<(IF "message" \in DOMAIN r.value THEN r.value.message
                                             ELSE "Bulk upsert operation completed")
                                            \o "\n" \o "{message, table, rowsAffected, totalRecords, errors}">>,
                                          FALSE),
                               version)
                 ELSE addBackgroundContext(c,
                          ToolResult(<<formatSuccessMessage(
                                         IF c.tool = "create-function"
                                         THEN "Edge function 'hello' created successfully from " \o c.arg
                                         ELSE "Edge function 'hello' updated successfully"
                                              \o (IF c.arg # "" THEN " from " \o c.arg ELSE ""),
                                         r.value)>>, FALSE),
                          version)

CodeFiles == {"fn.js"}

\* download-template up to its first await
DownloadTemplateStart(c, key) ==
    LET k == getApiKey(KeyArgument(c), key)
    IN  IF k.kind = "throw" THEN Caught(c, "Error downloading template", k.text)
        ELSE Send(c, "main", Request("POST", "/api/auth/tokens/anon", k.value))

\* download-template from the outcome of the anon-key request on
DownloadTemplateFetched(c, outcome) ==
    IF outcome.net = "rejects" THEN Failed(c, "Error downloading template", ErrNetwork)
    ELSE LET r == handleApiResponse(outcome.response)
         IN  IF r.kind = "throw" THEN Failed(c, "Error downloading template", r.text)
             ELSE IF r.value = UndefinedValue
             THEN Failed(c, "Error downloading template", ErrUndefinedResult)
             ELSE IF "accessToken" \notin DOMAIN r.value
             THEN Caught(c, "Error downloading template", "Failed to retrieve anon key from backend")
             ELSE AwaitLocal(c, "exec")

\* download-template after npx create-insforge-app has exited
DownloadTemplateExeced(c, ok, version) ==
    IF ok
    THEN addBackgroundContext(c,
             ToolResult(<<"React template downloaded successfully. Template Location: /tmp/insforge-" \o c.arg>>, FALSE),
             version)
    ELSE Caught(c, "Error downloading template", "Command failed: npx create-insforge-app")

Frames == {"react", "nextjs"}

Letters ==
    {"a", "b", "c", "d", "e", "f", "g", "h", "i", "j", "k", "l", "m", "n", "o", "p", "q",
     "r", "s", "t", "u", "v", "w", "x", "y", "z", "A", "B", "C", "D", "E", "F", "G", "H",
     "I", "J", "K", "L", "M", "N", "O", "P", "Q", "R", "S", "T", "U", "V", "W", "X", "Y", "Z"}

\* mutant: a drive letter and a colon are enough
isAbsolutePathLoose(sourceDirectory) ==
    \/ (Len(sourceDirectory) >= 1 /\ sourceDirectory[1] = "/")
    \/ (Len(sourceDirectory) >= 2 /\ sourceDirectory[1] \in Letters /\ sourceDirectory[2] = ":")

\* sourceDirectory.startsWith('/') || /^[a-zA-Z]:[/\\]/.test(sourceDirectory)
isAbsolutePath(sourceDirectory) ==
    \/ (Len(sourceDirectory) >= 1 /\ sourceDirectory[1] = "/")
    \/ (Len(sourceDirectory) >= 3 /\ sourceDirectory[1] \in Letters /\ sourceDirectory[2] = ":"
          /\ sourceDirectory[3] \in {"/", "\\"})

\* the characters of a string joined into the string
RECURSIVE Join(_)
Join(chars) == IF chars = <<>> THEN "" ELSE Head(chars) \o Join(Tail(chars))

ErrRelativePath(sourceDirectory) ==
    "Error: sourceDirectory must be an absolute path, not a relative path like \""
    \o Join(sourceDirectory)
    \o "\". Please provide the full path to the source directory (e.g., /Users/name/project on macOS/Linux or C:\\Users\\name\\project on Windows)."

ErrCreateDeployment == "Error creating deployment"

\* create-deployment up to its first await: the path check, then step 1
CreateDeploymentStart(c, key) ==
    IF ~isAbsolutePath(c.arg)
    THEN Settle(c, ToolResult(<<ErrRelativePath(c.arg)>>, TRUE))
    ELSE LET k == getApiKey(KeyArgument(c), key)
         IN  IF k.kind = "throw" THEN Caught(c, ErrCreateDeployment, k.text)
             ELSE Send(c, "create", Request("POST", "/api/deployments", k.value))

\* mutant: the deployment is started whatever the upload answered
CreateDeploymentFetchedIgnoringUpload(c, outcome, key, version) ==
    IF outcome.net = "rejects" THEN Failed(c, ErrCreateDeployment, ErrNetwork)
    ELSE IF c.step = "upload"
    THEN LET k == getApiKey(KeyArgument(c), key)
         IN  IF k.kind = "throw" THEN Caught(c, ErrCreateDeployment, k.text)
             ELSE Send(c, "start",
                       Request("POST", "/api/deployments/" \o c.dep.id \o "/start", k.value))
    ELSE LET r == handleApiResponse(outcome.response)
         IN  IF r.kind = "throw" THEN Failed(c, ErrCreateDeployment, r.text)
             ELSE IF c.step = "create"
             THEN IF r.value = UndefinedValue
                  THEN Failed(c, ErrCreateDeployment,
                              "Cannot destructure property 'id' of 'createResult' as it is undefined.")
                  ELSE AwaitLocal([c EXCEPT !.dep = r.value], "zip")
             ELSE addBackgroundContext(c,
                      ToolResult(<<formatSuccessMessage("Deployment started", r.value)
                                   \o "\n\nNote: You can check deployment status by querying the system.deployments table.">>,
                                 FALSE),
                      version)

\* create-deployment from the outcome of a request on
CreateDeploymentFetched(c, outcome, key, version) ==
    IF outcome.net = "rejects" THEN Failed(c, ErrCreateDeployment, ErrNetwork)
    ELSE IF c.step = "upload"
    THEN IF ~IsOk(outcome)
         THEN Failed(c, ErrCreateDeployment, "Failed to upload zip file: AccessDenied")
         ELSE LET k == getApiKey(KeyArgument(c), key)
              IN  IF k.kind = "throw" THEN Caught(c, ErrCreateDeployment, k.text)
                  ELSE Send(c, "start",
                            Request("POST", "/api/deployments/" \o c.dep.id \o "/start", k.value))
    ELSE LET r == handleApiResponse(outcome.response)
         IN  IF r.kind = "throw" THEN Failed(c, ErrCreateDeployment, r.text)
             ELSE IF c.step = "create"
             THEN IF r.value = UndefinedValue
                  THEN Failed(c, ErrCreateDeployment,
                              "Cannot destructure property 'id' of 'createResult' as it is undefined.")
                  ELSE AwaitLocal([c EXCEPT !.dep = r.value], "zip")
             ELSE addBackgroundContext(c,
                      ToolResult(<<formatSuccessMessage("Deployment started", r.value)
                                   \o "\n\nNote: You can check deployment status by querying the system.deployments table.">>,
                                 FALSE),
                      version)

\* create-deployment after the archive has finished or failed: step 3 posts
\* the zip to the presigned URL
CreateDeploymentZipped(c, ok) ==
    IF ~ok THEN Caught(c, ErrCreateDeployment, "ENOENT: no such file or directory, scandir")
    ELSE IF "uploadFields" \notin DOMAIN c.dep
    THEN Failed(c, ErrCreateDeployment, "Cannot convert undefined or null to object")
    ELSE Send(c, "upload", Request("POST", c.dep.uploadUrl, ""))

\* source directories the model passes, with whether they are absolute paths
PathSamples ==
    {[chars |-> <<".">>, absolute |-> FALSE],
     [chars |-> <<"a", "p", "p">>, absolute |-> FALSE],
     [chars |-> <<"C", ":", "a", "p", "p">>, absolute |-> FALSE],
     [chars |-> <<"/", "a", "p", "p">>, absolute |-> TRUE],
     [chars |-> <<"C", ":", "\\", "a", "p", "p">>, absolute |-> TRUE],
     [chars |-> <<"c", ":", "/", "a", "p", "p">>, absolute |-> TRUE]}

(***************************************************************************)
(* The server process: registration, then tool calls one at a time         *)
(***************************************************************************)
MainVersionRecs ==
    {[v |-> FALSE, parts |-> <<1, 1, 0>>, pre |-> FALSE],
     [v |-> FALSE, parts |-> <<1, 1, 1>>, pre |-> FALSE],
     [v |-> FALSE, parts |-> <<1, 1, 6>>, pre |-> FALSE],
     [v |-> FALSE, parts |-> <<1, 1, 7>>, pre |-> FALSE],
     [v |-> FALSE, parts |-> <<1, 1, 7>>, pre |-> TRUE],
     [v |-> FALSE, parts |-> <<1, 2, 0>>, pre |-> FALSE],
     [v |-> FALSE, parts |-> <<1, 4, 6>>, pre |-> FALSE],
     [v |-> FALSE, parts |-> <<1, 4, 7>>, pre |-> FALSE],
     [v |-> TRUE, parts |-> <<1, 10, 0>>, pre |-> TRUE]}

MainVersions == {VersionString(r) : r \in MainVersionRecs}

(***************************************************************************)
(* The HTTP server: sessions, and the handlers of /mcp                     *)
(***************************************************************************)
Slots == 1..NumSlots

\* a transport / McpServer pair that was not created yet
NoObj ==
    [state |-> "none", apiKey |-> <<>>, apiBaseUrl |-> "", tools |-> {}, toolCount |-> 0,
     sessionId |-> 0, serverClosed |-> FALSE]

\* a handler slot that serves nothing
NoReq ==
    [method |-> "", sid |-> 0, init |-> FALSE, auth |-> <<>>, baseUrl |-> "",
     pc |-> "free", status |-> 0, stored |-> FALSE, late |-> FALSE, via |-> 0, obj |-> 0,
     hadServer |-> FALSE, handled |-> FALSE, used |-> <<>>]

HttpIdle ==
    /\ transports = {}
    /\ servers = {}
    /\ objs = [o \in 1..MaxSessions |-> NoObj]
    /\ reqs = [slot \in Slots |-> NoReq]
    /\ deleted = {}
    /\ shutdown = FALSE
    /\ httpBackendRequests = 0

\* versions a running backend is moved to
UpgradeVersions == {V(<<1, 1, 0>>), V(<<1, 4, 7>>)}

\* the keys a tool call may carry, "" for none
CallKeys == {"", "ik_call"}

\* config.apiKey || process.env.API_KEY || ''
ConfiguredKey(flagKey, envKey) == IF flagKey # "" THEN flagKey ELSE envKey

MainIdle ==
    /\ srv = "starting"
    /\ GLOBAL_API_KEY = ""
    /\ backendVersion = <<>>
    /\ registeredTools = {}
    /\ toolCount = 0
    /\ healthRequests = 0
    /\ call = NoCall

Init ==
    /\ srv = "starting"
    /\ GLOBAL_API_KEY \in {ConfiguredKey(flagKey, envKey) : flagKey \in ApiKeys, envKey \in {"", "ik_env"}}
    /\ backendVersion = <<>>
    /\ registeredTools = {}
    /\ toolCount = 0
    /\ healthRequests = 0
    /\ call = NoCall
    /\ CmpIdle /\ RespIdle /\ WrapIdle /\ HttpIdle
    /\ clock = 0 /\ ticks = 0 /\ versionCache = <<>> /\ started = 0 /\ lastFetched = <<>>
    /\ resolves = [c \in Callers |-> IdleResolve]
    /\ healthVersion \in MainVersions

othersUnchanged ==
    UNCHANGED <<cmpVars, respVars, wrapVars, httpVars,
                clock, ticks, versionCache, resolves, started, lastFetched>>

\* registerInsforgeTools with a health probe that succeeds
RegisterTools ==
    /\ srv = "starting"
    /\ healthRequests' = healthRequests + 1
    /\ backendVersion' = healthVersion
    /\ LET reg == RegisterFrom(1, [tools |-> {}, toolCount |-> 0], healthVersion)
       IN  /\ registeredTools' = reg.tools
           /\ toolCount' = reg.toolCount
    /\ srv' = "serving"
    /\ UNCHANGED <<GLOBAL_API_KEY, call, healthVersion>>
    /\ othersUnchanged

\* registerInsforgeTools with a health probe that rejects or is not OK:
\* fetchBackendVersion throws before any registerTool
RegisterFails ==
    /\ srv = "starting"
    /\ healthRequests' = healthRequests + 1
    /\ srv' = "failed"
    /\ UNCHANGED <<GLOBAL_API_KEY, backendVersion, registeredTools, toolCount, call, healthVersion>>
    /\ othersUnchanged

\* the backend is upgraded or downgraded
BackendVersionChanges ==
    /\ \E v \in UpgradeVersions \ {healthVersion} : healthVersion' = v
    /\ UNCHANGED mainVars
    /\ othersUnchanged

CanCall(tool) ==
    /\ srv = "serving"
    /\ tool \in registeredTools
    /\ call.pc \in {"none", "done"}

HealthRequestsIn(c) ==
    Cardinality({i \in 1..Len(c.requests) : c.requests[i].path = "/api/health"})

\* the call moves on; health requests it sent are counted
CallBecomes(c) ==
    /\ call' = c
    /\ healthRequests' = healthRequests + HealthRequestsIn(c) - HealthRequestsIn(call)
    /\ UNCHANGED <<srv, GLOBAL_API_KEY, backendVersion, registeredTools, toolCount, healthVersion>>
    /\ othersUnchanged

CallSimple ==
    \E tool \in DOMAIN SimpleTools :
        /\ CanCall(tool)
        /\ \E apiKey \in CallKeys :
              /\ apiKey # "" => tool \in ToolsPassingApiKey
              /\ CallBecomes(SimpleStart([NewCall(tool, <<>>) EXCEPT !.apiKey = apiKey],
                                         GLOBAL_API_KEY))

CallFetchDocs ==
    \E docType \in DocTypes :
        /\ CanCall("fetch-docs")
        /\ CallBecomes(FetchDocsStart(NewCall("fetch-docs", docType)))

CallContainerLogs ==
    \E source \in LogSources :
        /\ CanCall("get-container-logs")
        /\ \E apiKey \in CallKeys :
              CallBecomes(ContainerLogsStart(
                  [NewCall("get-container-logs", source) EXCEPT !.apiKey = apiKey],
                  GLOBAL_API_KEY))

CallFileTool ==
    \E tool \in DOMAIN FileTools, codeFile \in CodeFiles \cup {""} :
        /\ CanCall(tool)
        /\ codeFile = "" => tool = "update-function"
        /\ \E apiKey \in CallKeys :
              /\ apiKey # "" => tool \in ToolsPassingApiKey
              /\ CallBecomes(FileToolStart([NewCall(tool, codeFile) EXCEPT !.apiKey = apiKey],
                                           GLOBAL_API_KEY))

CallDownloadTemplate ==
    \E frame \in Frames :
        /\ CanCall("download-template")
        /\ CallBecomes(DownloadTemplateStart(NewCall("download-template", frame), GLOBAL_API_KEY))

CallCreateDeployment ==
    \E p \in PathSamples :
        /\ CanCall("create-deployment")
        /\ CallBecomes(CreateDeploymentStart(NewCall("create-deployment", p.chars), GLOBAL_API_KEY))

\* the request the handler awaits settles
FetchSettles ==
    /\ call.pc = "awaitFetch"
    /\ \E outcome \in FetchOutcomes :
          LET c == [call EXCEPT !.received = Append(@, outcome)]
          IN  CallBecomes(
                  IF c.step = "context" THEN ContextFetched(c, outcome)
                  ELSE IF c.tool = "fetch-docs" THEN FetchDocsFetched(c, outcome, backendVersion)
                  ELSE IF c.tool = "get-container-logs"
                       THEN ContainerLogsFetched(c, outcome, backendVersion)
                  ELSE IF c.tool = "create-deployment"
                       THEN CreateDeploymentFetched(c, outcome, GLOBAL_API_KEY, backendVersion)
                  ELSE IF c.tool = "download-template" THEN DownloadTemplateFetched(c, outcome)
                  ELSE IF c.tool \in DOMAIN FileTools
                       THEN FileToolFetched(c, outcome, backendVersion)
                  ELSE SimpleFetched(c, outcome, backendVersion))

\* the file read, archive or subprocess the handler awaits settles
LocalSettles ==
    /\ call.pc = "awaitLocal"
    /\ \E ok \in BOOLEAN :
          CallBecomes(
              IF call.tool = "create-deployment" THEN CreateDeploymentZipped(call, ok)
              ELSE IF call.tool = "download-template"
                   THEN DownloadTemplateExeced(call, ok, backendVersion)
              ELSE FileToolRead(call, ok, GLOBAL_API_KEY))

\* the handler has settled: the wrapper tracks the usage and settles
UsageTracked ==
    /\ call.pc = "settled"
    /\ \E postOk \in BOOLEAN :
          LET w == withUsageTracking(GLOBAL_API_KEY, call.tool, call.inner, postOk)
          IN  CallBecomes([call EXCEPT !.pc = "done", !.postOk = postOk,
                                       !.events = w.events, !.outcome = w.outcome])

Next ==
    \/ RegisterTools
    \/ RegisterFails
    \/ BackendVersionChanges
    \/ CallSimple
    \/ CallFetchDocs
    \/ CallContainerLogs
    \/ CallFileTool
    \/ CallDownloadTemplate
    \/ CallCreateDeployment
    \/ FetchSettles
    \/ LocalSettles
    \/ UsageTracked

Spec == Init /\ [][Next]_vars

(***************************************************************************)
(* Properties of the server                                                *)
(***************************************************************************)
Declared == {ToolNames[i] : i \in 1..Len(ToolNames)}

\* the components of the versions used as bounds, and of the backend versions
BoundParts == {<<1, 1, 1>>, <<1, 2, 0>>, <<1, 4, 7>>}

PartsOfBound(version) == CHOOSE p \in BoundParts : V(p) = version

PartsOfBackend(version) == (CHOOSE r \in MainVersionRecs : VersionString(r) = version).parts

\* toolName has no requirement, or the backend is within its inclusive bounds
Admitted(toolName, version) ==
    \/ toolName \notin DOMAIN TOOL_VERSION_REQUIREMENTS
    \/ LET requirement == TOOL_VERSION_REQUIREMENTS[toolName]
           parts       == PartsOfBackend(version)
       IN  /\ "minVersion" \in DOMAIN requirement
                => ListCompare(parts, PartsOfBound(requirement.minVersion)) >= 0
           /\ "maxVersion" \in DOMAIN requirement
                => ListCompare(parts, PartsOfBound(requirement.maxVersion)) <= 0

NothingRegistered == [tools |-> {}, toolCount |-> 0]

\* C1: once registration has run with backend version v, a declared tool is
\* registered if and only if it has no version requirement or v lies within
\* its bounds, both inclusive; nothing else is registered and the counter
\* counts the registered tools. A requirement with both bounds admits v
\* exactly when min <= v <= max. A tool with minVersion 1.1.1 is registered
\* for 1.1.1 and 1.2.0 and left out altogether for 1.1.0.
C1_RegisteredIffRequirementMet ==
    /\ srv = "serving" =>
         /\ \A t \in Declared : t \in registeredTools <=> Admitted(t, backendVersion)
         /\ registeredTools \subseteq Declared
         /\ toolCount = Cardinality(registeredTools)
         /\ \A lo \in BoundParts, hi \in BoundParts :
               meetsRequirement([minVersion |-> V(lo), maxVersion |-> V(hi)], backendVersion)
                 <=> /\ ListCompare(PartsOfBackend(backendVersion), lo) >= 0
                     /\ ListCompare(PartsOfBackend(backendVersion), hi) <= 0
    /\ TOOL_VERSION_REQUIREMENTS["upsert-schedule"] = [minVersion |-> V(<<1, 1, 1>>)]
    /\ registerTool("upsert-schedule", NothingRegistered, V(<<1, 1, 1>>)).tools = {"upsert-schedule"}
    /\ registerTool("upsert-schedule", NothingRegistered, V(<<1, 2, 0>>)).tools = {"upsert-schedule"}
    /\ registerTool("upsert-schedule", NothingRegistered, V(<<1, 1, 0>>)) = NothingRegistered

\* registration ran against the very minimum of create-deployment and
\* registered it
C1_Witness ==
    /\ srv = "serving"
    /\ backendVersion = V(<<1, 4, 7>>)
    /\ "create-deployment" \in registeredTools
    /\ toolCount = 16

\* registration ran one patch below the minimum and left the tool out
C1_WitnessOmitted ==
    /\ srv = "serving"
    /\ backendVersion = V(<<1, 4, 6>>)
    /\ "create-deployment" \notin registeredTools
    /\ toolCount = 15

\* C2: one GET /api/health per session and none per tool call: once
\* registerInsforgeTools has returned, no step (a tool call, a change of the
\* version the backend reports) changes the registered tools, their count,
\* the version they were gated by, or the number of health requests sent.
C2_GatedOncePerSession ==
    [][/\ healthRequests' <= 1
       /\ srv = "serving" =>
            /\ registeredTools' = registeredTools
            /\ toolCount' = toolCount
            /\ backendVersion' = backendVersion
            /\ healthRequests' = healthRequests]_vars

\* a call was served after the backend moved to a version that would gate
\* the tools differently
C2_Witness ==
    /\ srv = "serving"
    /\ call.pc = "done"
    /\ healthRequests = 1
    /\ healthVersion # backendVersion
    /\ \E t \in Declared : shouldRegisterTool(t, healthVersion) # (t \in registeredTools)

\* C8: create-deployment with a sourceDirectory that is no absolute path
\* returns the error result demanding an absolute path, and the call sends no
\* request at all.
C8_RelativePathRejected ==
    (/\ call.tool = "create-deployment"
     /\ \E p \in PathSamples : p.chars = call.arg /\ ~p.absolute)
    => /\ call.pc \in {"settled", "done"}
       /\ call.requests = <<>>
       /\ call.inner = Returns(ToolResult(<<ErrRelativePath(call.arg)>>, TRUE))
       /\ call.pc = "done" => call.outcome = call.inner

\* a drive letter without a slash was passed, and the call is over
C8_Witness ==
    /\ call.tool = "create-deployment"
    /\ call.arg = <<"C", ":", "a", "p", "p">>
    /\ call.pc = "done"
    /\ call.requests = <<>>
    /\ call.outcome.value.isError

\* indices of the requests of call c that the decorator made
ContextRequests(c) ==
    {i \in 1..Len(c.requests) :
        c.requests[i].path = "/api/docs/instructions" /\ ~(c.tool = "fetch-docs" /\ i = 1)}

\* the instructions did not arrive: the request failed or the document is empty
ContextFailed(c) ==
    c.context # <<>> /\ (c.context[1].kind = "throw" \/ c.context[1].value = "")

SampleResults == {ToolResult(<<"Buckets retrieved">>, FALSE), ToolResult(<<"a", "b">>, FALSE)}

\* C11: the legacy context decorator never fails the tool response: when the
\* instructions cannot be fetched (request rejected, 404, failure envelope,
\* unusable body, empty document) the call returns, it does not throw, and
\* what it returns is the response the decorator was given, content
\* unchanged. The same holds for the generation of the decorator that
\* resolves the backend version itself, when that resolution fails.
C11_DecoratorNeverFails ==
    /\ (call.pc \in {"settled", "done"} /\ ContextFailed(call))
         => /\ call.inner = Returns(call.pending)
            /\ call.pending.content # <<>>
            /\ ~call.pending.isError
            /\ call.pc = "done" => call.outcome = Returns(call.pending)
    /\ srv = "serving" =>
          \A response \in SampleResults :
             /\ addBackgroundContextCached(response, Throws("Health check failed"),
                                           Returns("# doc")) = response
             /\ addBackgroundContextCached(response, Returns(backendVersion),
                                           Throws(ErrNetwork)) = response

\* a successful list-buckets on a legacy backend whose instructions request failed
C11_Witness ==
    /\ call.tool = "list-buckets"
    /\ call.pc = "done"
    /\ call.context # <<>>
    /\ call.context[1].kind = "throw"
    /\ call.outcome = Returns(call.pending)
    /\ Len(call.requests) = 2

\* the backend version the tools were gated by is below 1.1.7
Legacy == ListCompare(PartsOfBackend(backendVersion), <<1, 1, 7>>) < 0

\* C12: the decorator is active only below 1.1.7. For a backend at or above
\* 1.1.7 (1.1.7-dev.3 included) a finished call has made no instructions
\* request on behalf of the decorator and a successful result has the single
\* block its handler built. Below 1.1.7 every successful handler result is
\* decorated with one instructions request, and when the instructions arrive
\* the result is the handler's blocks, unchanged, followed by exactly one block.
C12_DecoratorOnlyBelowThreshold ==
    (srv = "serving" /\ call.pc \in {"settled", "done"})
    => /\ ~Legacy => /\ ContextRequests(call) = {}
                     /\ call.context = <<>>
                     /\ ~call.inner.value.isError => Len(call.inner.value.content) = 1
       /\ Legacy => /\ (call.failure = "" /\ ~call.inner.value.isError)
                         => (call.context # <<>> /\ Cardinality(ContextRequests(call)) = 1)
                    /\ (call.context # <<>> /\ ~ContextFailed(call))
                         => /\ call.inner.value.content
                                  = call.pending.content
                                      \o <<ContextBanner \o call.context[1].value>>
                            /\ Len(call.pending.content) = 1
                            /\ call.inner.value.isError = call.pending.isError

\* a successful call on a 1.1.7 pre-release backend
C12_Witness ==
    /\ srv = "serving"
    /\ backendVersion = VersionString([v |-> FALSE, parts |-> <<1, 1, 7>>, pre |-> TRUE])
    /\ call.pc = "done"
    /\ call.tool = "list-buckets"
    /\ ~call.outcome.value.isError
    /\ Len(call.requests) = 1

\* a successful call on a 1.1.6 backend, decorated
C12_WitnessDecorated ==
    /\ srv = "serving"
    /\ backendVersion = V(<<1, 1, 6>>)
    /\ call.pc = "done"
    /\ Len(call.outcome.value.content) = 2

\* what precedes the error message in the text of a handler's result
ErrorPrefixes ==
    {SimpleTools[t].error \o ": " : t \in DOMAIN SimpleTools}
    \cup {FileTools[t].error \o ": " : t \in DOMAIN FileTools}
    \cup {"Error retrieving container logs: ", "Error downloading template: ",
          ErrCreateDeployment \o ": "}
    \cup {"Error fetching " \o d \o " documentation: Unable to retrieve " \o d \o " documentation: "
            : d \in DocTypes}

\* C9: whenever a backend call or local file read of a tool has failed, the
\* handler has returned (not thrown) a result marked isError whose text
\* carries the message of the failure.
C9_FailureIsErrorResult ==
    (call.pc \in {"settled", "done"} /\ call.failure # "")
    => /\ call.inner.kind = "return"
       /\ call.inner.value.isError
       /\ \E prefix \in ErrorPrefixes : call.inner.value.content[1] = prefix \o call.failure

\* the same, for every tool but fetch-docs
C9_FailureIsErrorResultButDocs ==
    (call.pc \in {"settled", "done"} /\ call.failure # "" /\ call.tool # "fetch-docs")
    => /\ call.inner.kind = "return"
       /\ call.inner.value.isError
       /\ \E prefix \in ErrorPrefixes : call.inner.value.content[1] = prefix \o call.failure

\* fetch-docs has failed on a backend that cannot be reached
C9_DocsFailureUnmarked ==
    /\ call.tool = "fetch-docs"
    /\ call.pc = "done"
    /\ call.failure = ErrNetwork
    /\ ~call.outcome.value.isError

\* fetch-docs has failed on a missing document and its text is silent
\* about the failure
C9_DocsFailureSilent ==
    /\ call.tool = "fetch-docs"
    /\ call.pc = "done"
    /\ call.failure = ErrDocNotFound
    /\ call.outcome.value.content = <<DocNotAvailable(call.arg)>>

\* the tools whose handler asks for the API key
NeedsKey == Declared \ {"fetch-docs"}

\* the requests of call c that carry an x-api-key header
KeyedRequests(c) == {i \in 1..Len(c.requests) : c.requests[i].key # ""}

\* the text of the result of call c says that an API key is required
SaysKeyRequired(c) ==
    /\ c.inner.kind = "return"
    /\ c.inner.value.isError
    /\ \E prefix \in ErrorPrefixes : c.inner.value.content = <<prefix \o ErrNoApiKey>>

\* an earlier step of the call failed before the handler asked for the key:
\* the sourceDirectory is not absolute, or the code file could not be read
FailedBeforeKey(c) ==
    /\ c.inner.kind = "return"
    /\ c.inner.value.isError
    /\ \/ /\ c.tool = "create-deployment"
          /\ \E p \in PathSamples : p.chars = c.arg /\ ~p.absolute
          /\ c.inner.value.content = <<ErrRelativePath(c.arg)>>
       \/ /\ c.tool \in {"create-function", "update-function"}
          /\ c.inner.value.content
               = <<FileTools[c.tool].error \o ": Failed to read code file '" \o c.arg
                     \o "': " \o ErrNoEnt>>

\* C14 as stated: without a configured key every finished call of a tool
\* that needs the key has returned the error saying an API key is required,
\* and has sent no request with an x-api-key header.
C14_NoKeySaysKeyRequired ==
    (GLOBAL_API_KEY = "" /\ call.tool \in NeedsKey /\ call.pc \in {"settled", "done"})
    => (SaysKeyRequired(call) /\ KeyedRequests(call) = {})

\* C14, amended: without a configured key a call of a tool that needs the
\* key sends no request at all and ends in an error result; the error says
\* that an API key is required unless the call failed earlier, on a relative
\* sourceDirectory or an unreadable code file. The wrapper returns that
\* result, the server keeps serving and the next call can be made.
C14_NoKeyNoRequest ==
    (GLOBAL_API_KEY = "" /\ call.tool \in NeedsKey)
    => /\ call.requests = <<>>
       /\ call.pc \in {"awaitLocal", "settled", "done"}
       /\ call.pc \in {"settled", "done"} => (SaysKeyRequired(call) \/ FailedBeforeKey(call))
       /\ call.pc = "done" => /\ call.outcome = call.inner
                              /\ srv = "serving"
                              /\ CanCall("fetch-docs")
                              /\ CanCall(call.tool)

\* list-buckets was called on a server without a key and has returned
C14_Witness ==
    /\ GLOBAL_API_KEY = ""
    /\ call.tool = "list-buckets"
    /\ call.pc = "done"
    /\ call.outcome = Returns(ToolResult(<<"Error listing buckets: " \o ErrNoApiKey>>, TRUE))
    /\ call.requests = <<>>

\* C15 as stated: the key of the tool call is the x-api-key of the call's
\* requests when no key is configured, so such a call does not fail for want
\* of a key; a configured key takes precedence over the key of the call.
C15_PerCallKeyUsed ==
    (call.tool \in ToolsPassingApiKey /\ call.pc \in {"settled", "done"})
    => /\ (GLOBAL_API_KEY = "" /\ call.apiKey # "")
            => /\ ~SaysKeyRequired(call)
               /\ \A i \in KeyedRequests(call) : call.requests[i].key = call.apiKey
       /\ GLOBAL_API_KEY # ""
            => \A i \in KeyedRequests(call) : call.requests[i].key = GLOBAL_API_KEY

\* get-anon-key was called with its own key on a server without a key and
\* was refused for want of a key
C15_PerCallKeyIgnored ==
    /\ GLOBAL_API_KEY = ""
    /\ call.tool = "get-anon-key"
    /\ call.apiKey = "ik_call"
    /\ call.pc = "done"
    /\ call.requests = <<>>
    /\ call.outcome = Returns(ToolResult(<<"Error generating anonymous token: " \o ErrNoApiKey>>, TRUE))

\* what the code does with the key of the call: a configured key is the
\* x-api-key of every keyed request, the key of the call of none
C15_ConfiguredKeyOnly ==
    \A i \in KeyedRequests(call) : call.requests[i].key = GLOBAL_API_KEY

ScheduleTools == {"upsert-schedule", "delete-schedule"}

\* C16 as stated: of the version-gated tools, upsert-schedule and
\* delete-schedule are exposed exactly when the backend is at least 1.1.1 and
\* create-deployment exactly when it is at least 1.4.7.
C16_GatedToolsByVersion ==
    srv = "serving"
    => LET parts == PartsOfBackend(backendVersion)
       IN  /\ \A t \in ScheduleTools :
                 t \in registeredTools <=> ListCompare(parts, <<1, 1, 1>>) >= 0
           /\ "create-deployment" \in registeredTools <=> ListCompare(parts, <<1, 4, 7>>) >= 0

\* C16, amended: the requirements table names upsert-schedule and
\* delete-schedule (1.1.1) and create-deployment (1.4.7), but only
\* create-deployment is passed to registerTool: it is exposed exactly when
\* the backend is at least 1.4.7, and the schedule tools at no version.
C16_OnlyDeploymentGated ==
    /\ DOMAIN TOOL_VERSION_REQUIREMENTS = ScheduleTools \cup {"create-deployment"}
    /\ srv = "serving"
       => /\ registeredTools \cap ScheduleTools = {}
          /\ "create-deployment" \in registeredTools
               <=> ListCompare(PartsOfBackend(backendVersion), <<1, 4, 7>>) >= 0
          /\ Declared \ {"create-deployment"} \subseteq registeredTools

\* registration ran against 1.2.0, above the bound of the schedule tools
C16_Witness ==
    /\ srv = "serving"
    /\ backendVersion = V(<<1, 2, 0>>)
    /\ registeredTools \cap ScheduleTools = {}
    /\ toolCount = 15

\* C25: the toolCount returned by registerInsforgeTools is the number of
\* tools registered on the server, which is the number of registerTool calls
\* less one for each gated tool the returned backendVersion does not admit.
C25_ToolCountIsRegistered ==
    srv = "serving" =>
        /\ toolCount = Cardinality(registeredTools)
        /\ toolCount = Len(ToolNames)
                         - Cardinality({t \in Declared : ~Admitted(t, backendVersion)})
        /\ \A t \in Declared \cap DOMAIN TOOL_VERSION_REQUIREMENTS :
              t \in registeredTools <=> Admitted(t, backendVersion)

\* registration on 1.4.6 skipped create-deployment and returned 15
C25_Witness ==
    /\ srv = "serving"
    /\ backendVersion = V(<<1, 4, 6>>)
    /\ "create-deployment" \notin registeredTools
    /\ toolCount = 15

\* registration on 1.4.7 skipped nothing and returned 16
C25_WitnessAll ==
    /\ srv = "serving"
    /\ backendVersion = V(<<1, 4, 7>>)
    /\ toolCount = 16

\* C26 as stated: the UsageEvent of a tool call has success = false whenever
\* the result returned to the client is an error result, and success = true
\* only when the call succeeded.
C26_EventRecordsOutcome ==
    (call.pc = "done" /\ call.events # <<>> /\ call.outcome.kind = "return") =>
        (call.events[1].success <=> ~call.outcome.value.isError)

\* get-anon-key failed at the backend, its result is an error result, and
\* its UsageEvent says success
C26_ErrorResultTrackedAsSuccess ==
    /\ call.tool = "get-anon-key"
    /\ call.pc = "done"
    /\ call.failure # ""
    /\ call.outcome.kind = "return"
    /\ call.outcome.value.isError
    /\ call.events = <<[toolName |-> "get-anon-key", success |-> TRUE]>>

\* what the wrapper does record: whether the handler returned or threw
C26_EventRecordsSettlement ==
    (call.pc = "done" /\ call.events # <<>>) =>
        (call.events[1].success <=> call.inner.kind = "return")

\* the i-th response of call c was received and unwraps to data
Unwrapped(c, i) ==
    /\ Len(c.received) >= i
    /\ c.received[i].net = "ok"
    /\ handleApiResponse(c.received[i].response).kind = "return"
    /\ handleApiResponse(c.received[i].response).value # UndefinedValue

\* the i-th response of call c was received and ends the handler's try
\* block: the fetch rejected, the create or start response does not unwrap,
\* or the upload response is not OK
StepFailed(c, i) ==
    /\ Len(c.received) >= i
    /\ \/ c.received[i].net = "rejects"
       \/ i \in {1, 3} /\ handleApiResponse(c.received[i].response).kind = "throw"
       \/ i = 1 /\ handleApiResponse(c.received[i].response).value = UndefinedValue
       \/ i = 2 /\ ~IsOk(c.received[i])

\* C23: the requests of create-deployment are, in this order, POST
\* /api/deployments, POST to the uploadUrl of the unwrapped create response,
\* and POST /api/deployments/<id>/start with the id of that response; the
\* start request is sent only if the create response unwrapped and the upload
\* response was OK; the first failed step ends the call with an error result,
\* no request follows it and none undoes an earlier step.
C23_DeploymentStepsInOrder ==
    call.tool = "create-deployment" =>
        /\ Len(call.requests) <= 3
        /\ Len(call.requests) >= 1 =>
              call.requests[1] = Request("POST", "/api/deployments", GLOBAL_API_KEY)
        /\ Len(call.requests) >= 2 =>
              /\ Unwrapped(call, 1)
              /\ call.requests[2]
                   = Request("POST", handleApiResponse(call.received[1].response).value.uploadUrl, "")
        /\ Len(call.requests) >= 3 =>
              /\ Unwrapped(call, 1)
              /\ call.received[2].net = "ok" /\ IsOk(call.received[2])
              /\ call.requests[3]
                   = Request("POST",
                             "/api/deployments/"
                                \o handleApiResponse(call.received[1].response).value.id
                                \o "/start",
                             GLOBAL_API_KEY)
        /\ \A i \in 1..3 :
              StepFailed(call, i) =>
                  /\ Len(call.requests) = i /\ Len(call.received) = i
                  /\ call.pc \in {"settled", "done"}
                  /\ call.inner.kind = "return" /\ call.inner.value.isError
                  /\ \A j \in 1..i : call.requests[j].method = "POST"

\* all three steps succeeded on 1.4.7: three requests, no error
C23_Witness ==
    /\ call.tool = "create-deployment"
    /\ call.pc = "done"
    /\ Len(call.requests) = 3
    /\ call.requests[3].path = "/api/deployments/dep1/start"
    /\ ~call.inner.value.isError

\* the upload was refused: the call ended with an error after two requests
C23_WitnessUploadRefused ==
    /\ call.tool = "create-deployment"
    /\ call.pc = "done"
    /\ Len(call.requests) = 2
    /\ Len(call.received) = 2 /\ call.received[2].status = 400
    /\ call.inner.value.isError

LogsPath(c) == "/api/logs/" \o c.arg \o "?limit=20"

LegacyLogsPath(c) == "/api/logs/analytics/" \o c.arg \o "?limit=20"

\* the positions of the requests of call c that went to path
SentTo(c, path) == {i \in 1..Len(c.requests) : c.requests[i].path = path}

\* C22: get-container-logs first requests /api/logs/<source>; it requests
\* /api/logs/analytics/<source> if and only if the first response has status
\* 404, as its second request, with the same query and API key; neither
\* endpoint is requested twice in a call; the tool result is built from the
\* last response received from these endpoints.
C22_LegacyFallbackOn404 ==
    call.tool = "get-container-logs" =>
        /\ SentTo(call, LogsPath(call)) \subseteq {1}
        /\ SentTo(call, LegacyLogsPath(call)) \subseteq {2}
        /\ Len(call.requests) >= 1 => call.requests[1] = Request("GET", LogsPath(call), GLOBAL_API_KEY)
        /\ Len(call.received) >= 1 =>
              (SentTo(call, LegacyLogsPath(call)) = {2}
                 <=> (call.received[1].net = "ok" /\ call.received[1].status = 404))
        /\ SentTo(call, LegacyLogsPath(call)) = {2} =>
              call.requests[2] = Request("GET", LegacyLogsPath(call), call.requests[1].key)
        /\ (call.pc \in {"settled", "done"} /\ call.requests # <<>>) =>
              LET n == Cardinality(SentTo(call, LogsPath(call)) \cup SentTo(call, LegacyLogsPath(call)))
                  last == call.received[n]
                  r == handleApiResponse(last.response)
                  shown == call.inner.value.content[1]
              IN  IF last.net = "rejects"
                  THEN shown = "Error retrieving container logs: " \o ErrNetwork
                  ELSE IF r.kind = "throw"
                  THEN shown = "Error retrieving container logs: " \o r.text
                  ELSE shown = formatSuccessMessage("Latest logs from " \o call.arg, r.value)

\* the first endpoint answered 404, the legacy endpoint answered with rows,
\* and the result shows those rows
C22_Witness ==
    /\ call.tool = "get-container-logs"
    /\ call.pc = "done"
    /\ Len(call.received) >= 2
    /\ call.received[1].status = 404
    /\ call.received[2] = Got(200, EnvelopeOk(DataRows))
    /\ call.requests[2].path = LegacyLogsPath(call)
    /\ ~call.inner.value.isError

\* the legacy endpoint answered 404 as well and the call ended with an error
\* result after two requests
C22_WitnessLegacyMissing ==
    /\ call.tool = "get-container-logs"
    /\ call.pc = "done"
    /\ Len(call.received) = 2
    /\ call.received[1].status = 404 /\ call.received[2].status = 404
    /\ Len(call.requests) = 2
    /\ call.inner.value.isError

(***************************************************************************)
(* The HTTP server: the handlers of POST, GET and DELETE /mcp and SIGINT   *)
(***************************************************************************)
BearerPrefix == <<"B", "e", "a", "r", "e", "r", " ">>

\* s.startsWith(prefix)
StartsWith(str, prefix) ==
    Len(str) >= Len(prefix) /\ SubSeq(str, 1, Len(prefix)) = prefix

\* mutant: whatever follows the first seven characters is the key
BearerKeyAnyScheme(authHeader) ==
    IF Len(authHeader) > 7 THEN SubSeq(authHeader, 8, Len(authHeader)) ELSE <<>>

\* apiKey of the POST handler: authHeader.substring(7) if the header starts
\* with 'Bearer ', otherwise undefined; <<>> stands for undefined and for ''
BearerKey(authHeader) ==
    IF StartsWith(authHeader, BearerPrefix)
    THEN SubSeq(authHeader, 8, Len(authHeader))
    ELSE <<>>

\* mutant: any session id counts as stored
StoredLoose(sessionId) == sessionId # 0

\* sessionId && transports.has(sessionId); 0 stands for a missing header
Stored(sessionId) == sessionId # 0 /\ sessionId \in transports

\* header values of the requests the model sends
AuthHeaders ==
    {<<>>,
     <<"B", "a", "s", "i", "c", " ", "i", "k", "_", "a">>,
     BearerPrefix,
     BearerPrefix \o <<"i", "k", "_", "a">>}

BaseUrls == {"", "http://localhost:7130"}

\* session ids a request may carry: none, or one the server may ever issue
SessionIds == 0..MaxSessions

\* the POST requests of the model: initialize requests without a session id
\* with every combination of headers; initialize requests with a session id
\* and other requests with both headers or neither
PostInputs ==
    {in \in [sid : SessionIds, init : BOOLEAN, auth : AuthHeaders, baseUrl : BaseUrls] :
        (in.init /\ in.sid = 0)
        \/ (in.auth = <<>> /\ in.baseUrl = "")
        \/ (in.auth = BearerPrefix \o <<"i", "k", "_", "a">> /\ in.baseUrl # "")}

\* versions the backend of the HTTP model reports
HttpVersions == {V(<<1, 1, 0>>), V(<<1, 4, 7>>)}

\* a slot can take a new request; a request takes the first such slot
SlotFree(slot) ==
    /\ reqs[slot].pc \in {"free", "done", "crashed"}
    /\ \A other \in 1..(slot - 1) : reqs[other].pc \notin {"free", "done", "crashed"}

\* the number of the next transport / McpServer pair, if one may be created
NextObj == Cardinality({o \in 1..MaxSessions : objs[o].state # "none"}) + 1

Arrived(method, in) ==
    [NoReq EXCEPT !.method = method, !.sid = in.sid, !.init = in.init, !.auth = in.auth,
                  !.baseUrl = in.baseUrl, !.stored = Stored(in.sid),
                  !.late = in.sid \in deleted]

\* the requests after slot has come to hold record r: the slots hold the
\* requests in flight and the request answered last
Put(slot, r) ==
    [s \in Slots |->
        IF s = slot THEN r
        ELSE IF r.pc \in {"done", "crashed"} /\ reqs[s].pc \in {"done", "crashed"} THEN NoReq
        ELSE reqs[s]]

\* res.status(code).json(...) and return
Answered(r, status) == [r EXCEPT !.pc = "done", !.status = status]

\* app.post('/mcp') up to its first await, for a request drawn from inputs
PostMcpFrom(slot, inputs) ==
    /\ SlotFree(slot)
    /\ ~shutdown
    /\ \E in \in inputs :
          LET r      == Arrived("POST", in)
              apiKey == BearerKey(in.auth)
          IN  IF Stored(in.sid)
              THEN /\ reqs' = Put(slot, [r EXCEPT !.pc = "handling", !.via = in.sid])
                   /\ UNCHANGED <<objs, httpBackendRequests>>
              ELSE IF in.init
              THEN IF apiKey = <<>>
                   THEN /\ reqs' = Put(slot, Answered(r, 401))
                        /\ UNCHANGED <<objs, httpBackendRequests>>
                   ELSE IF in.baseUrl = ""
                   THEN /\ reqs' = Put(slot, Answered(r, 400))
                        /\ UNCHANGED <<objs, httpBackendRequests>>
                   ELSE /\ NextObj <= MaxSessions
                        /\ objs' = [objs EXCEPT ![NextObj] =
                                      [NoObj EXCEPT !.state = "registering", !.apiKey = apiKey,
                                                    !.apiBaseUrl = in.baseUrl]]
                        /\ reqs' = Put(slot,                                      [r EXCEPT !.pc = "registering", !.obj = NextObj])
                        /\ httpBackendRequests' = httpBackendRequests + 1
              ELSE /\ reqs' = Put(slot, Answered(r, 400))
                   /\ UNCHANGED <<objs, httpBackendRequests>>
    /\ UNCHANGED <<transports, servers, deleted, shutdown>>
    /\ UNCHANGED <<cmpVars, respVars, cacheVars, wrapVars, mainVars>>

PostMcp(slot) == PostMcpFrom(slot, PostInputs)

\* mutant: the key, base URL and tools are those of the registration made last
SessionConfigOfLatest(o) ==
    LET latest == NextObj - 1
    IN  [apiKey |-> objs[latest].apiKey, apiBaseUrl |-> objs[latest].apiBaseUrl,
         tools |-> objs[latest].tools]

\* GLOBAL_API_KEY, API_BASE_URL and the tools of the registerInsforgeTools
\* call made for server o: constants of that call, which its handlers use
SessionConfig(o) ==
    [apiKey |-> objs[o].apiKey, apiBaseUrl |-> objs[o].apiBaseUrl, tools |-> objs[o].tools]

\* mutant: a failed registration is logged and the handler carries on
HttpRegisteredIgnoringFailure(slot) ==
    /\ reqs[slot].pc = "registering"
    /\ LET o == reqs[slot].obj
       IN  \E ok \in BOOLEAN :
              /\ objs' = [objs EXCEPT ![o] =
                            IF ok
                            THEN [@ EXCEPT !.state = "connected",
                                           !.tools = RegisterFrom(1, [tools |-> {}, toolCount |-> 0],
                                                                  healthVersion).tools,
                                           !.toolCount = RegisterFrom(1, [tools |-> {}, toolCount |-> 0],
                                                                      healthVersion).toolCount]
                            ELSE [@ EXCEPT !.state = "failed"]]
              /\ reqs' = Put(slot, [reqs[slot] EXCEPT !.pc = "handling", !.via = o])
    /\ UNCHANGED <<transports, servers, deleted, shutdown, httpBackendRequests>>
    /\ UNCHANGED <<cmpVars, respVars, cacheVars, wrapVars, mainVars>>

\* await registerInsforgeTools(...) settles, then await mcpServer.connect: if
\* registration throws the handler rejects; the client gets no answer or the
\* 500 of the framework's error handler
HttpRegistered(slot) ==
    /\ reqs[slot].pc = "registering"
    /\ LET o == reqs[slot].obj
       IN  \/ /\ objs' = [objs EXCEPT ![o] =
                            [@ EXCEPT !.state = "connected",
                                      !.tools = RegisterFrom(1, [tools |-> {}, toolCount |-> 0],
                                                             healthVersion).tools,
                                      !.toolCount = RegisterFrom(1, [tools |-> {}, toolCount |-> 0],
                                                                 healthVersion).toolCount]]
              /\ reqs' = Put(slot, [reqs[slot] EXCEPT !.pc = "handling", !.via = o])
           \/ /\ objs' = [objs EXCEPT ![o] = [@ EXCEPT !.state = "failed"]]
              /\ \E status \in {0, 500} :
                    reqs' = Put(slot, [reqs[slot] EXCEPT !.pc = "crashed", !.status = status])
    /\ UNCHANGED <<transports, servers, deleted, shutdown, httpBackendRequests>>
    /\ UNCHANGED <<cmpVars, respVars, cacheVars, wrapVars, mainVars>>

\* app.get('/mcp') up to its await
GetMcp(slot) ==
    /\ SlotFree(slot)
    /\ ~shutdown
    /\ \E sid \in SessionIds :
          LET r == Arrived("GET", [sid |-> sid, init |-> FALSE, auth |-> <<>>, baseUrl |-> ""])
          IN  reqs' = Put(slot,                         IF ~Stored(sid) THEN Answered(r, 404)
                         ELSE [r EXCEPT !.pc = "handling", !.via = sid])
    /\ UNCHANGED <<transports, servers, objs, deleted, shutdown, httpBackendRequests>>
    /\ UNCHANGED <<cmpVars, respVars, cacheVars, wrapVars, mainVars>>

\* app.delete('/mcp') up to its first await
DeleteMcp(slot) ==
    /\ SlotFree(slot)
    /\ ~shutdown
    /\ \E sid \in SessionIds :
          LET r == Arrived("DELETE", [sid |-> sid, init |-> FALSE, auth |-> <<>>, baseUrl |-> ""])
          IN  reqs' = Put(slot,                         IF ~Stored(sid) THEN Answered(r, 404)
                         ELSE [r EXCEPT !.pc = "handling", !.via = sid,
                                        !.hadServer = sid \in servers])
    /\ UNCHANGED <<transports, servers, objs, deleted, shutdown, httpBackendRequests>>
    /\ UNCHANGED <<cmpVars, respVars, cacheVars, wrapVars, mainVars>>

\* await transport.handleRequest(req, res, req.body) settles. The transport
\* answers the request; it initializes its session on the first initialize
\* request it accepts (onsessioninitialized stores transport and server). It
\* may also refuse the request or throw. A request other than initialize
\* that it accepts is served by the handlers of the session's server, with
\* the configuration of that server's registration.
TransportHandled(slot) ==
    /\ reqs[slot].pc = "handling"
    /\ LET r == reqs[slot]
           o == r.via
       IN  \E result \in {"ok", "refused", "throws"} :
              IF result = "throws"
              THEN /\ \E status \in {0, 500} :
                         reqs' = Put(slot, [r EXCEPT !.pc = "crashed", !.status = status])
                   /\ UNCHANGED <<transports, servers, objs, deleted>>
              ELSE LET status == IF result = "ok" THEN 200 ELSE 400
                       toolCall == result = "ok" /\ r.method = "POST" /\ ~r.init
                       r1     == [r EXCEPT !.handled = TRUE, !.status = status,
                                           !.used = IF toolCall THEN <<SessionConfig(o)>> ELSE <<>>]
                   IN  IF r.method = "DELETE"
                       THEN IF r.hadServer
                            THEN /\ reqs' = Put(slot, [r1 EXCEPT !.pc = "closing"])
                                 /\ UNCHANGED <<transports, servers, objs, deleted>>
                            ELSE /\ reqs' = Put(slot, [r1 EXCEPT !.pc = "done"])
                                 /\ transports' = transports \ {r.sid}
                                 /\ deleted' = deleted \cup {r.sid}
                                 /\ UNCHANGED <<servers, objs>>
                       ELSE /\ reqs' = Put(slot, [r1 EXCEPT !.pc = "done"])
                            /\ IF /\ result = "ok" /\ r.method = "POST" /\ r.init
                                  /\ objs[o].sessionId = 0
                               THEN /\ objs' = [objs EXCEPT ![o].sessionId = o,
                                                            ![o].state = "initialized"]
                                    /\ transports' = transports \cup {o}
                                    /\ servers' = servers \cup {o}
                               ELSE UNCHANGED <<transports, servers, objs>>
                            /\ UNCHANGED deleted
    /\ UNCHANGED <<shutdown, httpBackendRequests>>
    /\ UNCHANGED <<cmpVars, respVars, cacheVars, wrapVars, mainVars>>

\* mutant: the transport stays in its map after the server was closed
ServerClosedKeepingTransport(slot) ==
    /\ reqs[slot].pc = "closing"
    /\ reqs' = Put(slot, [reqs[slot] EXCEPT !.pc = "done"])
    /\ objs' = [objs EXCEPT ![reqs[slot].via].serverClosed = TRUE]
    /\ servers' = servers \ {reqs[slot].sid}
    /\ deleted' = deleted \cup {reqs[slot].sid}
    /\ UNCHANGED <<transports, shutdown, httpBackendRequests>>
    /\ UNCHANGED <<cmpVars, respVars, cacheVars, wrapVars, mainVars>>

\* await server.close() of the DELETE handler settles; then both map entries
\* are deleted. If close throws the handler rejects and neither is deleted.
ServerClosed(slot) ==
    /\ reqs[slot].pc = "closing"
    /\ \/ /\ reqs' = Put(slot, [reqs[slot] EXCEPT !.pc = "done"])
          /\ objs' = [objs EXCEPT ![reqs[slot].via].serverClosed = TRUE]
          /\ servers' = servers \ {reqs[slot].sid}
          /\ transports' = transports \ {reqs[slot].sid}
          /\ deleted' = deleted \cup {reqs[slot].sid}
       \/ /\ reqs' = Put(slot, [reqs[slot] EXCEPT !.pc = "crashed"])
          /\ UNCHANGED <<objs, servers, transports, deleted>>
    /\ UNCHANGED <<shutdown, httpBackendRequests>>
    /\ UNCHANGED <<cmpVars, respVars, cacheVars, wrapVars, mainVars>>

\* mutant: the shutdown clears the servers map only
SigintKeepingTransports ==
    /\ ~shutdown
    /\ shutdown' = TRUE
    /\ objs' = [o \in 1..MaxSessions |->
                  IF o \in servers
                  THEN [objs[o] EXCEPT !.serverClosed = TRUE]
                  ELSE objs[o]]
    /\ servers' = {}
    /\ UNCHANGED <<transports, reqs, deleted, httpBackendRequests>>
    /\ UNCHANGED <<cmpVars, respVars, cacheVars, wrapVars, mainVars>>

\* the SIGINT handler: every stored server and its transport are closed, both
\* maps are cleared, the listener stops accepting requests
Sigint ==
    /\ ~shutdown
    /\ shutdown' = TRUE
    /\ objs' = [o \in 1..MaxSessions |->
                  IF o \in servers
                  THEN [objs[o] EXCEPT !.serverClosed = TRUE]
                  ELSE objs[o]]
    /\ servers' = {}
    /\ transports' = {}
    /\ UNCHANGED <<reqs, deleted, httpBackendRequests>>
    /\ UNCHANGED <<cmpVars, respVars, cacheVars, wrapVars, mainVars>>

InitHttp ==
    /\ HttpIdle
    /\ CmpIdle /\ RespIdle /\ WrapIdle /\ MainIdle
    /\ clock = 0 /\ ticks = 0 /\ versionCache = <<>> /\ started = 0 /\ lastFetched = <<>>
    /\ resolves = [c \in Callers |-> IdleResolve]
    /\ healthVersion \in HttpVersions

\* the HTTP server, and beside it the stdio server starting up
NextHttp ==
    \/ \E slot \in Slots : PostMcp(slot)
    \/ \E slot \in Slots : GetMcp(slot)
    \/ \E slot \in Slots : DeleteMcp(slot)
    \/ \E slot \in Slots : HttpRegistered(slot)
    \/ \E slot \in Slots : TransportHandled(slot)
    \/ \E slot \in Slots : ServerClosed(slot)
    \/ Sigint
    \/ RegisterTools
    \/ RegisterFails

SpecHttp == InitHttp /\ [][NextHttp]_vars

\* the request answered last, if slot holds it
AnsweredIn(slot) == reqs[slot].pc = "done"

\* slot takes a new request in this step
Arrives(slot) ==
    /\ reqs[slot].pc \in {"free", "done", "crashed"}
    /\ reqs'[slot] # reqs[slot]
    /\ reqs'[slot].method # ""

SessionStateUnchanged == UNCHANGED <<transports, servers, objs, httpBackendRequests>>

\* C13: if the health probe of a registration fails, registerInsforgeTools
\* fails with no tool registered. The stdio server then stays unconnected for
\* good. In the HTTP server the transport / server pair of that initialize
\* request has no tool, is never handed the request, gets no session id and
\* is in neither map; the request is not answered by a transport.
C13_FailedProbeRegistersNothing ==
    /\ [](/\ srv = "failed" => (registeredTools = {} /\ toolCount = 0 /\ backendVersion = <<>>)
          /\ \A o \in 1..MaxSessions :
                objs[o].state = "failed"
                => /\ objs[o].tools = {} /\ objs[o].toolCount = 0
                   /\ objs[o].sessionId = 0
                   /\ o \notin transports /\ o \notin servers
                   /\ \A slot \in Slots : reqs[slot].via # o
          /\ \A slot \in Slots :
                (reqs[slot].obj # 0 /\ objs[reqs[slot].obj].state = "failed")
                => (reqs[slot].pc = "crashed" /\ ~reqs[slot].handled
                      /\ reqs[slot].status \in {0, 500}))
    /\ [][/\ srv = "failed" => srv' = "failed"
          /\ \A o \in 1..MaxSessions : objs[o].state = "failed" => objs'[o] = objs[o]]_vars

\* the registration of an initialize request has failed, and so has that of
\* the stdio server
C13_Witness ==
    /\ srv = "failed"
    /\ \E slot \in Slots :
          /\ reqs[slot].pc = "crashed"
          /\ reqs[slot].obj # 0
          /\ objs[reqs[slot].obj].state = "failed"
    /\ transports = {}

\* C17: a POST initialize request that does not carry a stored session id is
\* answered 401 if it has no Bearer key, and 400 if it has one but no
\* X-Base-URL; answering it creates no transport and no server, sends no
\* backend request and leaves both maps as they were.
C17_InitializeNeedsHeaders ==
    [][\A slot \in Slots :
          (/\ Arrives(slot)
           /\ reqs'[slot].method = "POST" /\ reqs'[slot].init /\ ~Stored(reqs'[slot].sid)
           /\ (~StartsWith(reqs'[slot].auth, BearerPrefix)
                 \/ Len(reqs'[slot].auth) = Len(BearerPrefix)
                 \/ reqs'[slot].baseUrl = ""))
          => /\ reqs'[slot].pc = "done"
             /\ reqs'[slot].status
                  = IF StartsWith(reqs'[slot].auth, BearerPrefix)
                       /\ Len(reqs'[slot].auth) > Len(BearerPrefix)
                    THEN 400 ELSE 401
             /\ reqs'[slot].via = 0 /\ reqs'[slot].obj = 0
             /\ SessionStateUnchanged]_vars

\* an initialize request with a Basic credential and a base URL was answered 401
C17_Witness ==
    \E slot \in Slots :
        /\ AnsweredIn(slot)
        /\ reqs[slot].method = "POST" /\ reqs[slot].init /\ ~reqs[slot].stored
        /\ reqs[slot].auth # <<>> /\ ~StartsWith(reqs[slot].auth, BearerPrefix)
        /\ reqs[slot].baseUrl # ""
        /\ reqs[slot].status = 401

\* an initialize request with a Bearer key and no base URL was answered 400
C17_WitnessNoBaseUrl ==
    \E slot \in Slots :
        /\ AnsweredIn(slot)
        /\ reqs[slot].method = "POST" /\ reqs[slot].init /\ ~reqs[slot].stored
        /\ BearerKey(reqs[slot].auth) # <<>>
        /\ reqs[slot].baseUrl = ""
        /\ reqs[slot].status = 400

\* C18 as stated: every POST request handed to a transport carries a Bearer
\* key and an X-Base-URL header.
C18_EveryPostAuthenticated ==
    \A slot \in Slots :
        (reqs[slot].method = "POST" /\ reqs[slot].via # 0)
        => (BearerKey(reqs[slot].auth) # <<>> /\ reqs[slot].baseUrl # "")

\* a POST with a stored session id and neither header was handled by the
\* session's transport and answered 200
C18_UnauthenticatedPostServed ==
    \E slot \in Slots :
        /\ AnsweredIn(slot)
        /\ reqs[slot].method = "POST" /\ reqs[slot].stored
        /\ reqs[slot].auth = <<>> /\ reqs[slot].baseUrl = ""
        /\ reqs[slot].handled /\ reqs[slot].status = 200

\* what the code does enforce: the headers are checked on the initialize
\* request that creates a session, and on no other
C18_OnlyInitializeAuthenticated ==
    \A slot \in Slots :
        (reqs[slot].method = "POST" /\ reqs[slot].via # 0 /\ ~reqs[slot].stored)
        => (reqs[slot].init /\ BearerKey(reqs[slot].auth) # <<>> /\ reqs[slot].baseUrl # "")

\* C19: a POST that carries no stored session id and is no initialize
\* request is answered 400; a GET or DELETE whose session id is missing or
\* not stored is answered 404; none of them is handed to a transport, and
\* answering them leaves the maps and the sessions as they were.
C19_NoSessionNoTransport ==
    [][\A slot \in Slots :
          (/\ Arrives(slot)
           /\ ~(reqs'[slot].sid # 0 /\ reqs'[slot].sid \in transports)
           /\ ~reqs'[slot].init)
          => /\ reqs'[slot].pc = "done"
             /\ reqs'[slot].status = IF reqs'[slot].method = "POST" THEN 400 ELSE 404
             /\ reqs'[slot].via = 0 /\ reqs'[slot].obj = 0 /\ ~reqs'[slot].handled
             /\ SessionStateUnchanged
             /\ UNCHANGED deleted]_vars

\* a GET with the id of no stored session was answered 404 while a session
\* is stored
C19_Witness ==
    /\ transports # {}
    /\ \E slot \in Slots :
          /\ AnsweredIn(slot)
          /\ reqs[slot].method = "GET"
          /\ reqs[slot].sid # 0 /\ reqs[slot].sid \notin transports
          /\ reqs[slot].status = 404

\* a POST without session id that is no initialize request was answered 400
C19_WitnessPost ==
    \E slot \in Slots :
        /\ AnsweredIn(slot)
        /\ reqs[slot].method = "POST" /\ ~reqs[slot].init /\ reqs[slot].sid = 0
        /\ reqs[slot].status = 400

\* C20: once the DELETE handler of a stored session has run to its end, the
\* session's server is closed and its id is in neither map; a GET or DELETE
\* arriving later with that id is answered 404 and a later POST that is no
\* initialize request 400, none of them reaching a transport. The id is taken
\* out of the maps by a DELETE only after the transport has handled that
\* DELETE request.
C20_DeleteTearsDown ==
    /\ [](/\ \A sid \in deleted :
                /\ sid \notin transports /\ sid \notin servers
                /\ objs[sid].serverClosed
          /\ \A slot \in Slots :
                (reqs[slot].late /\ reqs[slot].pc # "free" /\ ~reqs[slot].init)
                => /\ reqs[slot].pc = "done"
                   /\ reqs[slot].status = IF reqs[slot].method = "POST" THEN 400 ELSE 404
                   /\ reqs[slot].via = 0)
    /\ [][\A sid \in (transports \ transports') \cup (servers \ servers') :
             \/ shutdown'
             \/ \E slot \in Slots :
                   /\ reqs[slot].method = "DELETE" /\ reqs[slot].sid = sid
                   /\ reqs'[slot].handled /\ reqs'[slot].pc = "done"
                   /\ sid \in deleted']_vars

\* a session was deleted and a later GET with its id was answered 404
C20_Witness ==
    /\ deleted # {}
    /\ ~shutdown
    /\ \E slot \in Slots :
          /\ AnsweredIn(slot)
          /\ reqs[slot].method = "GET"
          /\ reqs[slot].late
          /\ reqs[slot].status = 404

\* the credentials of two clients
KeyA == <<"i", "k", "_", "a">>

KeyB == <<"i", "k", "_", "b">>

UrlA == "http://localhost:7130"

UrlB == "http://localhost:7131"

\* the POST requests of two clients: initialize requests with the
\* credentials of either, and tool requests on a session id that carry no
\* headers or the credentials of the second client
IsoInputs ==
    {in \in [sid : SessionIds, init : BOOLEAN, auth : {<<>>, BearerPrefix \o KeyA, BearerPrefix \o KeyB},
             baseUrl : {"", UrlA, UrlB}] :
        \/ /\ in.init /\ in.sid = 0
           /\ <<in.auth, in.baseUrl>> \in {<<BearerPrefix \o KeyA, UrlA>>, <<BearerPrefix \o KeyB, UrlB>>}
        \/ /\ ~in.init /\ in.sid # 0
           /\ <<in.auth, in.baseUrl>> \in {<<<<>>, "">>, <<BearerPrefix \o KeyB, UrlB>>}}

\* sessions of two clients with different credentials, while the backend
\* is upgraded or downgraded between their registrations
NextIso ==
    \/ \E slot \in Slots : PostMcpFrom(slot, IsoInputs)
    \/ \E slot \in Slots : DeleteMcp(slot)
    \/ \E slot \in Slots : HttpRegistered(slot)
    \/ \E slot \in Slots : TransportHandled(slot)
    \/ \E slot \in Slots : ServerClosed(slot)
    \/ BackendVersionChanges

SpecIso == InitHttp /\ [][NextIso]_vars

\* server o is created in this step, for the initialize request of a slot
Created(o, slot) ==
    /\ objs[o].state = "none"
    /\ objs'[o].state # "none"
    /\ reqs'[slot].obj = o
    /\ reqs'[slot].pc = "registering"

\* C24: a server is registered with the key and base URL of the headers of
\* the initialize request it is created for; its key, base URL and, once
\* registered, its tools never change, whatever other sessions do; and every
\* request a session's transport serves uses the key, base URL and tools of
\* that session's server, whatever headers the request carries.
C24_SessionsIsolated ==
    /\ [][\A o \in 1..MaxSessions :
             /\ (objs[o].state = "none" /\ objs'[o].state # "none")
                   => \E slot \in Slots :
                         /\ Created(o, slot)
                         /\ BearerPrefix \o objs'[o].apiKey = reqs'[slot].auth
                         /\ objs'[o].apiBaseUrl = reqs'[slot].baseUrl
                         /\ reqs'[slot].init
             /\ objs[o].state # "none"
                   => /\ objs'[o].apiKey = objs[o].apiKey
                      /\ objs'[o].apiBaseUrl = objs[o].apiBaseUrl
             /\ objs[o].state \notin {"none", "registering"}
                   => objs'[o].tools = objs[o].tools]_vars
    /\ [](\A slot \in Slots :
             reqs[slot].used # <<>>
             => /\ reqs[slot].via = reqs[slot].sid
                /\ reqs[slot].used[1].apiKey = objs[reqs[slot].sid].apiKey
                /\ reqs[slot].used[1].apiBaseUrl = objs[reqs[slot].sid].apiBaseUrl
                /\ reqs[slot].used[1].tools = objs[reqs[slot].sid].tools)

\* session 1 was initialized with the first client's credentials on 1.1.0
\* and session 2 with the second client's on 1.4.7; a request on session 1
\* that carried the second client's headers was served with the first
\* client's key, base URL and tools
C24_Witness ==
    \E slot \in Slots :
        /\ reqs[slot].pc = "done"
        /\ reqs[slot].sid = 1
        /\ reqs[slot].auth = BearerPrefix \o KeyB
        /\ reqs[slot].used = <<[apiKey |-> KeyA, apiBaseUrl |-> UrlA, tools |-> objs[1].tools]>>
        /\ objs[2].apiKey = KeyB /\ objs[2].apiBaseUrl = UrlB
        /\ objs[2].sessionId = 2
        /\ "create-deployment" \in objs[2].tools \ objs[1].tools

\* session 2, with other credentials, was initialized and deleted before a
\* request on session 1 was served with session 1's configuration
C24_WitnessAfterDelete ==
    \E slot \in Slots :
        /\ reqs[slot].pc = "done"
        /\ reqs[slot].sid = 1
        /\ reqs[slot].used # <<>>
        /\ reqs[slot].used[1].apiKey = KeyA
        /\ objs[2].apiKey = KeyB
        /\ 2 \in deleted

\* sessions: transports.size of GET /health
HealthSessions == Cardinality(transports)

\* the sessions whose initialization completed and that were not torn down
\* by a DELETE or by the shutdown
LiveSessions ==
    {o \in 1..MaxSessions :
        objs[o].sessionId # 0 /\ o \notin deleted /\ ~objs[o].serverClosed}

C30_WitnessShutdown ==
    /\ shutdown
    /\ HealthSessions = 0
    /\ \E o \in 1..MaxSessions : objs[o].sessionId # 0 /\ o \notin deleted

InitCache == CacheIdle /\ CmpIdle /\ RespIdle /\ WrapIdle /\ MainIdle /\ HttpIdle

NextCache ==
    \/ \E c \in Callers : ResolveStart(c)
    \/ \E c \in Callers : ResolveOk(c)
    \/ \E c \in Callers : ResolveFail(c)
    \/ \E c \in Callers : ResolveReturn(c)
    \/ Tick
    \/ BackendChange

SpecCache ==
    InitCache /\ [][NextCache /\ UNCHANGED <<cmpVars, respVars, wrapVars, mainVars, httpVars>>]_vars

\* every call that found no valid entry has sent its own health request
MissesRequest ==
    \A c \in Callers :
        resolves[c].pc # "idle" =>
            (resolves[c].requested <=> ~CacheValid(resolves[c].seen, resolves[c].now))

\* the step is the arrival of the health response of call c, which is stored
Writes(c) ==
    /\ resolves[c].pc = "fetching"
    /\ resolves'[c].pc = "done"
    /\ resolves'[c].result.kind = "return"

\* the cache changes only when a health response arrives, and then holds
\* the version of that response
WritesStoreResponse ==
    /\ (versionCache' # versionCache \/ lastFetched' # lastFetched)
          => \E c \in Callers : Writes(c)
    /\ \A c \in Callers :
          Writes(c) => /\ Len(versionCache') = 1
                       /\ versionCache'[1].version = healthVersion
                       /\ versionCache'[1].version = resolves'[c].result.value

\* C28 as stated: under every interleaving of resolve calls sharing one
\* cache, each call that misses sends its own health request, each write
\* stores the version of the response that caused it, and the timestamp of
\* the entry never decreases from one write to the next.
C28_TimestampNeverDecreases ==
    /\ []MissesRequest
    /\ [][WritesStoreResponse]_vars
    /\ [][(Len(versionCache) = 1 /\ Len(versionCache') = 1)
            => versionCache'[1].timestamp >= versionCache[1].timestamp]_vars

\* C28: each call that misses sends its own health request, each write
\* stores the version of the response that caused it, and the entry is
\* stamped with the time at which the writing call began, which is never
\* later than the time of the write and may be earlier than the stamp of the
\* entry it replaces.
C28_StampedWithCallStart ==
    /\ []MissesRequest
    /\ [][WritesStoreResponse]_vars
    /\ [][\A c \in Callers :
             Writes(c) => /\ versionCache'[1].timestamp = resolves[c].now
                          /\ versionCache'[1].timestamp <= clock]_vars

\* two calls missed and both sent a request; the one that began later was
\* answered first, and the one that began earlier wrote last: the entry
\* carries the earlier time
C28_Witness ==
    \E c, d \in Callers :
        /\ resolves[c].pc = "done" /\ resolves[d].pc = "done"
        /\ resolves[c].requested /\ resolves[d].requested
        /\ resolves[c].result.kind = "return" /\ resolves[d].result.kind = "return"
        /\ resolves[c].now < resolves[d].now
        /\ lastFetched = <<resolves[c]>>
        /\ versionCache[1].timestamp = resolves[c].now

\* C29: when the health request of a resolve call fails, the call fails
\* with an error and the step leaves the cache as it is: no entry is
\* created, and a stale entry is neither refreshed, replaced nor returned; a
\* call that finds no valid entry afterwards queries the backend again.
C29_FailureLeavesCache ==
    /\ []MissesRequest
    /\ [][\A c \in Callers :
             (resolves[c].pc = "fetching" /\ resolves'[c].pc = "done"
                /\ resolves'[c].result.kind = "throw")
             => /\ versionCache' = versionCache
                /\ lastFetched' = lastFetched]_vars
    /\ [](\A c \in Callers :
             (resolves[c].pc = "done" /\ resolves[c].requested)
             => (resolves[c].result.kind = "throw"
                   \/ (lastFetched # <<>> /\ resolves[c].result.value \in CacheVersions)))

\* a call that found a stale entry failed, the entry is the one it found,
\* and a later call has sent a health request of its own
C29_Witness ==
    \E c, d \in Callers :
        /\ resolves[c].pc = "done"
        /\ resolves[c].result.kind = "throw"
        /\ Len(resolves[c].seen) = 1
        /\ versionCache = resolves[c].seen
        /\ resolves[d].pc = "fetching"
        /\ resolves[d].seen = versionCache
        /\ resolves[d].now >= resolves[c].now

\* the resolver called by checkToolVersion
NextGate ==
    \/ \E c \in Callers : CheckToolVersionStart(c)
    \/ \E c \in Callers : ResolveOk(c)
    \/ \E c \in Callers : ResolveFail(c)
    \/ \E c \in Callers : CheckToolVersionSettled(c)
    \/ \E c \in Callers : CheckToolVersionReturn(c)
    \/ BackendChange

SpecGate ==
    InitCache /\ [][NextGate /\ UNCHANGED <<cmpVars, respVars, wrapVars, mainVars, httpVars>>]_vars

\* the calls of checkToolVersion that have settled for a tool with a requirement
Checked == {c \in Callers : resolves[c].pc = "checked" /\ resolves[c].tool \in DOMAIN RequiredVersions}

\* C21 as stated: when checkToolVersion is called for a tool that has a
\* requirement and the backend version cannot be resolved, the check fails
\* with an error and the tool does not proceed.
C21_ResolutionFailureBlocks ==
    \A c \in Checked :
        resolves[c].result.kind = "throw" => resolves[c].outcome.kind = "throw"

\* C21: checkToolVersion fails exactly when the version was resolved and
\* compares below the tool's requirement, with the error that asks for an
\* upgrade; when the version cannot be resolved the check returns and the
\* tool proceeds; a tool without requirement proceeds without any health
\* request.
C21_OnlyMismatchBlocks ==
    \A c \in Callers :
        resolves[c].pc = "checked" =>
            IF resolves[c].tool \notin DOMAIN RequiredVersions
            THEN resolves[c].outcome.kind = "return" /\ ~resolves[c].requested
            ELSE IF resolves[c].result.kind = "throw"
                 THEN resolves[c].outcome.kind = "return"
                 ELSE /\ resolves[c].outcome.kind = "throw"
                         <=> resolves[c].result.value = V(<<1, 1, 0>>)
                      /\ resolves[c].outcome.kind = "throw"
                         => resolves[c].outcome.text[4] = V(<<1, 1, 1>>)

\* the health request of a check for upsert-schedule failed and the check
\* returned, while another check found 1.1.0 and threw
C21_Witness ==
    \E c, d \in Checked :
        /\ resolves[c].tool = "upsert-schedule"
        /\ resolves[c].requested
        /\ resolves[c].result.kind = "throw"
        /\ resolves[c].outcome.kind = "return"
        /\ resolves[d].result.kind = "return"
        /\ resolves[d].outcome.kind = "throw"

\* C4: a resolve call made less than 5 minutes after the timestamp of the
\* cached entry returns the cached version and sends no health request; one
\* made at an age of 5 minutes or more sends a health request and, when that
\* succeeds, the entry is replaced by the fetched version stamped with the
\* time of that call
C4_CacheTTL ==
    /\ \A c \in Callers :
          (resolves[c].pc # "idle" /\ Len(resolves[c].seen) > 0) =>
              IF resolves[c].now - resolves[c].seen[1].timestamp < 5 * 60 * 1000
              THEN /\ resolves[c].pc = "done"
                   /\ ~resolves[c].requested
                   /\ resolves[c].result = Returns(resolves[c].seen[1].version)
              ELSE resolves[c].requested
    /\ Len(lastFetched) > 0 =>
          /\ lastFetched[1].requested
          /\ lastFetched[1].result.kind = "return"
          /\ versionCache = <<[version |-> lastFetched[1].result.value,
                               timestamp |-> lastFetched[1].now]>>

\* an entry aged exactly 5 minutes was refetched and replaced by another version
C4_Witness ==
    /\ Len(lastFetched) > 0
    /\ Len(lastFetched[1].seen) > 0
    /\ lastFetched[1].now - lastFetched[1].seen[1].timestamp = 5 * 60 * 1000
    /\ versionCache[1].version # lastFetched[1].seen[1].version
    /\ versionCache[1].timestamp = lastFetched[1].now
    /\ \E c \in Callers :
          /\ resolves[c].pc = "done"
          /\ ~resolves[c].requested
          /\ resolves[c].now - resolves[c].seen[1].timestamp = 5 * 60 * 1000 - 1

(***************************************************************************)
(* SpecResp: handleApiResponse applied to every enumerated response        *)
(***************************************************************************)
InitResp ==
    /\ respIn \in Responses
    /\ respDone = FALSE
    /\ respOut = Returns(UndefinedValue)
    /\ CmpIdle
    /\ CacheIdle
    /\ WrapIdle
    /\ MainIdle
    /\ HttpIdle

HandleApiResponse ==
    /\ ~respDone
    /\ respDone' = TRUE
    /\ respOut' = handleApiResponse(respIn)
    /\ UNCHANGED <<respIn, cmpVars, cacheVars, wrapVars, mainVars, httpVars>>

NextResp == HandleApiResponse

SpecResp == InitResp /\ [][NextResp]_vars

IsFailureEnvelope ==
    /\ respDone
    /\ respIn.kind = "object"
    /\ "success" \in DOMAIN respIn.body
    /\ respIn.body.success = FALSE

Present(obj, key) == key \in DOMAIN obj

\* C5 as stated: on success = false the thrown text is "[<code>] <message>",
\* <message> being error.details if present, otherwise error.message, otherwise
\* "Unknown error", followed by ". <nextAction>" exactly when nextAction is
\* present (stated for envelopes that carry a non-empty error.code)
C5_TextByPresence ==
    (IsFailureEnvelope /\ Truthy(Get(GetObject(respIn.body, "error"), "code"))) =>
        LET error   == respIn.body.error
            message == IF Present(error, "details") THEN error.details
                       ELSE IF Present(error, "message") THEN error.message
                       ELSE "Unknown error"
            text    == "[" \o error.code \o "] " \o message
        IN  /\ respOut.kind = "throw"
            /\ respOut.text = IF Present(respIn.body, "nextAction")
                              THEN text \o ". " \o respIn.body.nextAction
                              ELSE text

\* C5 amended: on success = false the thrown text is "[<code>] <message>",
\* <code> being error.code if non-empty and otherwise UNKNOWN_ERROR, <message>
\* being error.details if non-empty, otherwise error.message if non-empty,
\* otherwise "Unknown error", followed by ". <nextAction>" exactly when
\* nextAction is present and non-empty
C5_TextByTruthiness ==
    IsFailureEnvelope =>
        LET error   == GetObject(respIn.body, "error")
            nonEmpty(key) == Present(error, key) /\ error[key] # ""
            code    == IF nonEmpty("code") THEN error.code ELSE "UNKNOWN_ERROR"
            message == IF nonEmpty("details") THEN error.details
                       ELSE IF nonEmpty("message") THEN error.message
                       ELSE "Unknown error"
            text    == "[" \o code \o "] " \o message
        IN  /\ respOut.kind = "throw"
            /\ respOut.text = IF Present(respIn.body, "nextAction") /\ respIn.body.nextAction # ""
                              THEN text \o ". " \o respIn.body.nextAction
                              ELSE text

\* the envelope of the example: details and message both given, nextAction given
C5_Witness ==
    /\ IsFailureEnvelope
    /\ GetObject(respIn.body, "error") = [code |-> "E1", message |-> "not allowed", details |-> "bad input"]
    /\ respOut = Throws("[E1] bad input. retry with valid input")

InitWrap ==
    /\ wrapKey \in ApiKeys
    /\ wrapTool \in {ToolNames[i] : i \in 1..Len(ToolNames)}
    /\ wrapInner \in InnerOutcomes
    /\ wrapDone = FALSE
    /\ wrapPostOk = TRUE
    /\ wrapEvents = <<>>
    /\ wrapOut = Throws("")
    /\ CmpIdle /\ RespIdle /\ CacheIdle /\ MainIdle /\ HttpIdle

\* one invocation of the wrapped handler: the handler settles, the usage POST
\* succeeds or fails, the wrapper settles
InvokeWrapped ==
    /\ ~wrapDone
    /\ \E postOk \in BOOLEAN :
          LET w == withUsageTracking(wrapKey, wrapTool, wrapInner, postOk)
          IN  /\ wrapPostOk' = postOk
              /\ wrapEvents' = w.events
              /\ wrapOut' = w.outcome
    /\ wrapDone' = TRUE
    /\ UNCHANGED <<wrapKey, wrapTool, wrapInner, cmpVars, respVars, cacheVars, mainVars, httpVars>>

NextWrap == InvokeWrapped

SpecWrap == InitWrap /\ [][NextWrap]_vars

C27_OneTrackingAttempt ==
    wrapDone => Len(wrapEvents) = (IF wrapKey # "" THEN 1 ELSE 0)

\* a handler threw and the usage POST failed: one event; the key is configured
C27_Witness ==
    /\ wrapDone
    /\ wrapKey # ""
    /\ wrapInner.kind = "throw"
    /\ ~wrapPostOk
    /\ Len(wrapEvents) = 1

\* no key is configured: a handler returned an error result and no event was made
C27_WitnessNoKey ==
    /\ wrapDone
    /\ wrapKey = ""
    /\ wrapInner.kind = "return"
    /\ wrapEvents = <<>>

\* C10: with an API key configured, a handler that returns is followed by one
\* UsageEvent with success = true for that tool and its result is returned; a
\* handler that throws is followed by one with success = false and the same
\* error is re-thrown
C10_EventMatchesSettlement ==
    (wrapDone /\ wrapKey # "") =>
        /\ wrapEvents = <<[toolName |-> wrapTool, success |-> (wrapInner.kind = "return")]>>
        /\ wrapOut.kind = wrapInner.kind
        /\ wrapInner.kind = "return" => wrapOut.value = wrapInner.value
        /\ wrapInner.kind = "throw" => wrapOut.text = wrapInner.text

\* a handler that threw: a failure event was emitted and the error re-thrown
C10_Witness ==
    /\ wrapDone
    /\ wrapKey # ""
    /\ wrapInner.kind = "throw"
    /\ wrapEvents = <<[toolName |-> wrapTool, success |-> FALSE]>>
    /\ wrapOut = wrapInner

(***************************************************************************)
(* SpecCmp: compareVersions applied to pairs of version strings            *)
(***************************************************************************)
InitCmp ==
    /\ cmpV1 \in VersionRecs
    /\ cmpV2 \in VersionRecs
    /\ cmpDone = FALSE
    /\ cmpResult = 0
    /\ RespIdle
    /\ CacheIdle
    /\ WrapIdle
    /\ MainIdle
    /\ HttpIdle

CompareVersions ==
    /\ ~cmpDone
    /\ cmpDone' = TRUE
    /\ cmpResult' = compareVersions(VersionString(cmpV1), VersionString(cmpV2))
    /\ UNCHANGED <<cmpV1, cmpV2, respVars, cacheVars, wrapVars, mainVars, httpVars>>

NextCmp == CompareVersions

SpecCmp == InitCmp /\ [][NextCmp]_vars

\* C3: compareVersions returns -1, 0 or 1, equal to the sign of the numeric,
\* component-wise, zero-padded comparison of the integer lists of the two
\* versions, whatever their "v" prefix and "-suffix"
C3_CompareIsNumericPadded ==
    cmpDone =>
        /\ cmpResult \in {0 - 1, 0, 1}
        /\ cmpResult = ListCompare(cmpV1.parts, cmpV2.parts)

\* a shorter version equal after padding, compared with prefix and suffix present
C3_Witness ==
    /\ cmpDone
    /\ Len(cmpV1.parts) < Len(cmpV2.parts)
    /\ cmpV1.v /\ cmpV2.pre
    /\ cmpResult = 0

====
